---- MODULE Spec2Model ----
(***************************************************************************)
(* Three-point correlation engine of TreeCorr (src/src/Corr3.cpp).         *)
(*                                                                         *)
(* Real numbers (double) are fixed-point numbers: the real r is the        *)
(* integer floor(r * Scale).  Every arithmetic expression of the source    *)
(* is translated operation by operation (Mul, Div, SQR, sqrt).  Integer    *)
(* valued reals, their sums and their products are exact, so ties between  *)
(* squared distances of grid points are exact ties.                        *)
(*                                                                         *)
(* The logarithm is not computed: kr = floor((log d2 - logminsep)/binsize) *)
(* is the number of bin edges minsep * exp(k*binsize) at or below d2, and  *)
(* the parameter ebinsize stands for exp(binsize).  The meanlogd arrays    *)
(* and the zeta payload (empty for the count kernel NData) are not part    *)
(* of the accumulator state of this model.                                 *)
(***************************************************************************)
EXTENDS Integers, Sequences, FiniteSets, TLC

\* ------------------------------------------------------------------------
\* Fixed-point reals
\* ------------------------------------------------------------------------

\* One unit of the fixed-point representation of double.
Scale == 100

R(n) == n * Scale

Mul(a, b) == (a * b) \div Scale

Div(a, b) == (a * Scale) \div b

SQR(x) == Mul(x, x)

RECURSIVE ISqrtBetween(_, _, _)
\* Largest r in lo..hi with r*r <= n  (lo*lo <= n is given).
ISqrtBetween(n, lo, hi) ==
    IF lo >= hi THEN lo
    ELSE LET mid == (lo + hi + 1) \div 2
         IN  IF mid * mid <= n THEN ISqrtBetween(n, mid, hi)
             ELSE ISqrtBetween(n, lo, mid - 1)

ISqrt(n) == ISqrtBetween(n, 0, 46340)

\* sqrt of a fixed-point number, rounded down.
sqrt(x) == ISqrt(x * Scale)

\* sqrt of a fixed-point number, rounded up (a bounding radius must bound).
sqrtUp(x) == LET r == sqrt(x) IN IF r * r = x * Scale THEN r ELSE r + 1

Max(a, b) == IF a >= b THEN a ELSE b

RECURSIVE SeqSum(_)
SeqSum(s) == IF Len(s) = 0 THEN 0 ELSE Head(s) + SeqSum(Tail(s))

RECURSIVE Flatten(_)
\* Concatenation of a sequence of sequences.
Flatten(ss) == IF Len(ss) = 0 THEN <<>> ELSE Head(ss) \o Flatten(Tail(ss))

\* ------------------------------------------------------------------------
\* Geometry primitives (MetricHelper<Euclidean>, Flat coordinates)
\* ------------------------------------------------------------------------

\* Squared distance between two positions; the sizes are unused for Euclidean.
DistSq(p1, p2, s1, s2) == SQR(p1[1] - p2[1]) + SQR(p1[2] - p2[2])

\* Counter-clockwise test: the sign of the cross product (p2-p1) x (p3-p1).
CCW(p1, p2, p3) ==
    LET x2 == p2[1] - p1[1]
        y2 == p2[2] - p1[2]
        x3 == p3[1] - p1[1]
        y3 == p3[2] - p1[2]
    IN  x2 * y3 - x3 * y2 > 0

\* ------------------------------------------------------------------------
\* Cells
\* ------------------------------------------------------------------------

\* A leaf holding n coincident points at grid point (x, y), each of weight w.
Leaf(id, x, y, w, n) ==
    [id |-> id, f |-> 1, pos |-> <<R(x), R(y)>>, size |-> 0,
     w |-> R(w) * n, n |-> n, kids |-> <<>>]

RECURSIVE LeafPos(_)
\* The positions of the points of a cell.
LeafPos(c) ==
    IF Len(c.kids) = 0 THEN {c.pos}
    ELSE LeafPos(c.kids[1]) \cup LeafPos(c.kids[2])

SetMax(S) ==
    IF S = {} THEN 0
    ELSE LET x == CHOOSE y \in S : \A z \in S : y >= z IN x

\* An internal cell: centroid of its children (by count), radius bounding
\* every point of both, weight and count the sums.
Node(id, l, r) ==
    LET n   == l.n + r.n
        pos == << (l.pos[1] * l.n + r.pos[1] * r.n) \div n,
                  (l.pos[2] * l.n + r.pos[2] * r.n) \div n >>
        pts == LeafPos(l) \cup LeafPos(r)
    IN  [id |-> id, f |-> 1, pos |-> pos,
         size |-> sqrtUp(SetMax({ DistSq(pos, p, 0, 0) : p \in pts })),
         w |-> l.w + r.w, n |-> n, kids |-> <<l, r>>]

RECURSIVE InField(_, _)
\* The cell c as a cell of field number f (its origin).
InField(c, f) ==
    [c EXCEPT !.f = f,
              !.kids = IF Len(c.kids) = 0 THEN <<>>
                       ELSE <<InField(c.kids[1], f), InField(c.kids[2], f)>>]

getW(c) == c.w
getSize(c) == c.size
getN(c) == c.n
getPos(c) == c.pos
getLeft(c) == c.kids[1]
getRight(c) == c.kids[2]

\* What a commit records of a cell.
CellRef(c) == [id |-> c.id, f |-> c.f, pos |-> c.pos, w |-> c.w, n |-> c.n,
               size |-> c.size]

\* ------------------------------------------------------------------------
\* Parameters (BaseCorr3 constructor)
\* ------------------------------------------------------------------------

\* The constructor's derived values; binsize is held as ebinsize = exp(binsize).
BaseCorr3(minsep, maxsep, nbins, ebinsize, b, minu, maxu, nubins, ubinsize, bu, minv, maxv, nvbins, vbinsize, bv) ==
    [minsep |-> minsep, maxsep |-> maxsep, nbins |-> nbins,
     ebinsize |-> ebinsize, b |-> b,
     minu |-> minu, maxu |-> maxu, nubins |-> nubins, ubinsize |-> ubinsize,
     bu |-> bu,
     minv |-> minv, maxv |-> maxv, nvbins |-> nvbins, vbinsize |-> vbinsize,
     bv |-> bv,
     halfminsep |-> Mul(Scale \div 2, minsep),
     halfmind3 |-> Mul(Mul(Scale \div 2, minsep), minu),
     minsepsq |-> Mul(minsep, minsep), maxsepsq |-> Mul(maxsep, maxsep),
     minusq |-> Mul(minu, minu), maxusq |-> Mul(maxu, maxu),
     minvsq |-> Mul(minv, minv), maxvsq |-> Mul(maxv, maxv),
     bsq |-> Mul(b, b), busq |-> Mul(bu, bu), bvsq |-> Mul(bv, bv),
     nvbins2 |-> nvbins * 2,
     nuv |-> nubins * (nvbins * 2),
     ntot |-> nbins * (nubins * (nvbins * 2))]

\* ------------------------------------------------------------------------
\* stop111
\* ------------------------------------------------------------------------

\* stop111 without its last test, of two coincident points.
stop111NoZero(d1sq, d2sq, d3sq, d2in, s1, s2, s3, minsep, minsepsq, maxsep, maxsepsq, minu, minusq, maxu, maxusq, minv, minvsq, maxv, maxvsq) ==
    IF /\ d2sq < minsepsq /\ s1 + s3 < minsep /\ s1 + s2 < minsep
       /\ (s1 + s3 = 0 \/ d2sq < SQR(minsep - s1 - s3))
       /\ (s1 + s2 = 0 \/ d3sq < SQR(minsep - s1 - s2))
    THEN [stop |-> TRUE, d2 |-> d2in]
    ELSE IF /\ d2sq >= maxsepsq
            /\ (s1 + s3 = 0 \/ d2sq >= SQR(maxsep + s1 + s3))
            /\ (s2 + s3 = 0 \/ d1sq >= SQR(maxsep + s2 + s3))
    THEN [stop |-> TRUE, d2 |-> d2in]
    ELSE
    LET d2   == sqrt(d2sq)
        temp == Mul(minu, d2 - s1 - s3)
        minusq_d1sq == Mul(minusq, d1sq)
        sums == s1 + s2 + s3
        stopMinU ==
            /\ minu > 0 /\ d3sq < Mul(minusq, d2sq) /\ d2 > s1 + s3
            /\ temp > s1 + s2 /\ d3sq < SQR(temp - s1 - s2)
            /\ d3sq < minusq_d1sq /\ d1sq > 2 * SQR(s2 + s3)
            /\ minusq_d1sq > 2 * d3sq + 2 * SQR(s1 + s2 + Mul(minu, s2 + s3))
        stopMaxU ==
            /\ maxu < R(1) /\ d3sq >= Mul(maxusq, d2sq)
            /\ d3sq >= SQR(Mul(maxu, d2 + s1 + s3) + s1 + s2)
            /\ d2sq > SQR(s1 + s3) /\ d1sq > SQR(s2 + s3)
            /\ (s2 > s3 \/ d3sq <= SQR(d2 - s3 + s2))
            /\ (s1 > s3 \/ d1sq >= 2 * d3sq + 2 * SQR(s3 - s1))
        stopMaxV ==
            /\ maxv < R(1)
            /\ d1sq > SQR(Mul(R(1) + maxv, d2) + sums + Mul(maxv, s1 + s2))
        stopMinV ==
            /\ minv > 0 /\ d3sq > SQR(s1 + s2)
            /\ Mul(minvsq, d3sq) >
                 SQR(Div(d1sq - d2sq, 2 * d2) + sums + Mul(minv, s1 + s2))
        stopZero ==
            \/ (s2 = 0 /\ s3 = 0 /\ d1sq = 0)
            \/ (s1 = 0 /\ s3 = 0 /\ d2sq = 0)
            \/ (s1 = 0 /\ s2 = 0 /\ d3sq = 0)
    IN  [stop |-> stopMinU \/ stopMaxU \/ stopMaxV \/ stopMinV,
         d2 |-> d2]

\* The result is the returned flag and the value left in the reference d2
\* (d2in on the two returns that precede the assignment d2 = sqrt(d2sq)).
stop111(d1sq, d2sq, d3sq, d2in, s1, s2, s3, minsep, minsepsq, maxsep, maxsepsq, minu, minusq, maxu, maxusq, minv, minvsq, maxv, maxvsq) ==
    IF /\ d2sq < minsepsq /\ s1 + s3 < minsep /\ s1 + s2 < minsep
       /\ (s1 + s3 = 0 \/ d2sq < SQR(minsep - s1 - s3))
       /\ (s1 + s2 = 0 \/ d3sq < SQR(minsep - s1 - s2))
    THEN [stop |-> TRUE, d2 |-> d2in]
    ELSE IF /\ d2sq >= maxsepsq
            /\ (s1 + s3 = 0 \/ d2sq >= SQR(maxsep + s1 + s3))
            /\ (s2 + s3 = 0 \/ d1sq >= SQR(maxsep + s2 + s3))
    THEN [stop |-> TRUE, d2 |-> d2in]
    ELSE
    LET d2   == sqrt(d2sq)
        temp == Mul(minu, d2 - s1 - s3)
        minusq_d1sq == Mul(minusq, d1sq)
        sums == s1 + s2 + s3
        stopMinU ==
            /\ minu > 0 /\ d3sq < Mul(minusq, d2sq) /\ d2 > s1 + s3
            /\ temp > s1 + s2 /\ d3sq < SQR(temp - s1 - s2)
            /\ d3sq < minusq_d1sq /\ d1sq > 2 * SQR(s2 + s3)
            /\ minusq_d1sq > 2 * d3sq + 2 * SQR(s1 + s2 + Mul(minu, s2 + s3))
        stopMaxU ==
            /\ maxu < R(1) /\ d3sq >= Mul(maxusq, d2sq)
            /\ d3sq >= SQR(Mul(maxu, d2 + s1 + s3) + s1 + s2)
            /\ d2sq > SQR(s1 + s3) /\ d1sq > SQR(s2 + s3)
            /\ (s2 > s3 \/ d3sq <= SQR(d2 - s3 + s2))
            /\ (s1 > s3 \/ d1sq >= 2 * d3sq + 2 * SQR(s3 - s1))
        stopMaxV ==
            /\ maxv < R(1)
            /\ d1sq > SQR(Mul(R(1) + maxv, d2) + sums + Mul(maxv, s1 + s2))
        stopMinV ==
            /\ minv > 0 /\ d3sq > SQR(s1 + s2)
            /\ Mul(minvsq, d3sq) >
                 SQR(Div(d1sq - d2sq, 2 * d2) + sums + Mul(minv, s1 + s2))
        stopZero ==
            \/ (s2 = 0 /\ s3 = 0 /\ d1sq = 0)
            \/ (s1 = 0 /\ s3 = 0 /\ d2sq = 0)
            \/ (s1 = 0 /\ s2 = 0 /\ d3sq = 0)
    IN  [stop |-> stopMinU \/ stopMaxU \/ stopMaxV \/ stopMinV \/ stopZero,
         d2 |-> d2]

\* ------------------------------------------------------------------------
\* process111Sorted, process111
\* ------------------------------------------------------------------------
\* A call returns the sequence of its events, in program order:
\*   [kind |-> "commit", acc, c1, c2, c3, d1, d2, d3, u, v, index]
\*       a call of directProcess111 on the accumulator acc,
\*   [kind |-> "drop", ...]    the index fell outside [0, ntot),
\*   [kind |-> "assert", what] an Assert whose condition was false.
\* bcs = <<this, bc132, bc213, bc231, bc312, bc321>> are the references to
\* the accumulator the method is called on and to its five arguments.

AssertEv(cond, what) ==
    IF cond THEN <<>> ELSE << [kind |-> "assert", what |-> what] >>

RECURSIVE LogBin(_, _, _)
\* floor((log(d2) - log(edge)) / binsize) for d2 >= edge, ebinsize = exp(binsize).
LogBin(d2, edge, ebinsize) ==
    IF d2 < Mul(edge, ebinsize) THEN 0
    ELSE 1 + LogBin(d2, Mul(edge, ebinsize), ebinsize)

\* The split factor of the source (factor2 = 0.7).
factor2 == (7 * Scale) \div 10

\* The split decision splitting both c1 and c2 whenever c3 is not split.
SplitDecisionBoth(P, s1, s2, s3, d1sq, d2sq, d3sq, d2) ==
    LET condA   == s3 > Mul(d2, P.b)
        evalB   == s3 > 0 /\ ~condA
        s1ps3   == IF evalB THEN s1 + s3 ELSE 0
        d2split == evalB /\ s1 + s3 > 0 /\ s1 + s3 > Mul(d2, P.b)
        split3  == s3 > 0 /\
                     ( \/ condA
                       \/ (d2split /\ s3 >= s1)
                       \/ (P.bu < P.b /\ Mul(SQR(s3), d3sq) > SQR(Mul(P.bu, d2sq)))
                       \/ (P.bv < P.b /\ s3 > Mul(d2, P.bv)) )
        temp    == Mul(Mul(factor2, SQR(s3)), d3sq)
        split1a == s1 > 0 /\
                     ( \/ d2split
                       \/ (s3 = 0 /\ s3 > Mul(d2, P.b))
                       \/ SQR(s1) > d3sq )
        split2a == s2 > 0 /\
                     ( \/ SQR(s2) > d3sq
                       \/ (s2 > s3 /\ d3sq > SQR(d2 - s2 + s3))
                       \/ (s2 > s1 /\ d1sq < SQR(d2 + s2 - s1)) )
        d3      == sqrt(d3sq)
        u       == IF d2 = 0 THEN 0 ELSE Div(d3, d2)
        s1ps2   == s1 + s2
        ucond   == SQR(s1ps2 + Mul(s1ps3, u)) > Mul(d2sq, P.busq)
        d1      == sqrt(d1sq)
        v       == IF d3 = 0 THEN 0 ELSE Div(d1 - d2, d3)
        vcond   == SQR(Mul(s1ps2, R(1) + v)) > Mul(d3sq, P.bvsq)
        split12 == split1a \/ split2a \/ ucond \/ vcond
    IN  IF split3 THEN
            [split |-> TRUE, split1 |-> Mul(SQR(s1), d2sq) > temp,
             split2 |-> Mul(SQR(s2), d2sq) > temp, split3 |-> TRUE,
             d1 |-> R(-1), d3 |-> R(-1), u |-> R(-1), v |-> R(-1),
             ueval |-> FALSE, veval |-> FALSE]
        ELSE IF s1 > 0 \/ s2 > 0 THEN
            IF split12 THEN
                [split |-> TRUE, split1 |-> TRUE,
                 split2 |-> TRUE, split3 |-> FALSE,
                 d1 |-> R(-1), d3 |-> R(-1), u |-> R(-1), v |-> R(-1),
                 ueval |-> ~(split1a \/ split2a),
                 veval |-> ~(split1a \/ split2a \/ ucond)]
            ELSE
                [split |-> FALSE, split1 |-> FALSE, split2 |-> FALSE,
                 split3 |-> FALSE, d1 |-> d1, d3 |-> d3, u |-> u, v |-> v,
                 ueval |-> TRUE, veval |-> TRUE]
        ELSE
            [split |-> FALSE, split1 |-> FALSE, split2 |-> FALSE,
             split3 |-> FALSE, d1 |-> d1, d3 |-> d3, u |-> u, v |-> v,
             ueval |-> TRUE, veval |-> TRUE]

\* The split decision with the u test of c3 taken against bu^2 d2^2.
SplitDecisionUSquare(P, s1, s2, s3, d1sq, d2sq, d3sq, d2) ==
    LET condA   == s3 > Mul(d2, P.b)
        evalB   == s3 > 0 /\ ~condA
        s1ps3   == IF evalB THEN s1 + s3 ELSE 0
        d2split == evalB /\ s1 + s3 > 0 /\ s1 + s3 > Mul(d2, P.b)
        split3  == s3 > 0 /\
                     ( \/ condA
                       \/ (d2split /\ s3 >= s1)
                       \/ (P.bu < P.b /\ Mul(SQR(s3), d3sq) > Mul(P.busq, d2sq))
                       \/ (P.bv < P.b /\ s3 > Mul(d2, P.bv)) )
        temp    == Mul(Mul(factor2, SQR(s3)), d3sq)
        split1a == s1 > 0 /\
                     ( \/ d2split
                       \/ (s3 = 0 /\ s3 > Mul(d2, P.b))
                       \/ SQR(s1) > d3sq )
        split2a == s2 > 0 /\
                     ( \/ SQR(s2) > d3sq
                       \/ (s2 > s3 /\ d3sq > SQR(d2 - s2 + s3))
                       \/ (s2 > s1 /\ d1sq < SQR(d2 + s2 - s1)) )
        d3      == sqrt(d3sq)
        u       == IF d2 = 0 THEN 0 ELSE Div(d3, d2)
        s1ps2   == s1 + s2
        ucond   == SQR(s1ps2 + Mul(s1ps3, u)) > Mul(d2sq, P.busq)
        d1      == sqrt(d1sq)
        v       == IF d3 = 0 THEN 0 ELSE Div(d1 - d2, d3)
        vcond   == SQR(Mul(s1ps2, R(1) + v)) > Mul(d3sq, P.bvsq)
        split12 == split1a \/ split2a \/ ucond \/ vcond
    IN  IF split3 THEN
            [split |-> TRUE, split1 |-> Mul(SQR(s1), d2sq) > temp,
             split2 |-> Mul(SQR(s2), d2sq) > temp, split3 |-> TRUE,
             d1 |-> R(-1), d3 |-> R(-1), u |-> R(-1), v |-> R(-1),
             ueval |-> FALSE, veval |-> FALSE]
        ELSE IF s1 > 0 \/ s2 > 0 THEN
            IF split12 THEN
                [split |-> TRUE, split1 |-> split1a \/ s1 >= s2,
                 split2 |-> split2a \/ s2 >= s1, split3 |-> FALSE,
                 d1 |-> R(-1), d3 |-> R(-1), u |-> R(-1), v |-> R(-1),
                 ueval |-> ~(split1a \/ split2a),
                 veval |-> ~(split1a \/ split2a \/ ucond)]
            ELSE
                [split |-> FALSE, split1 |-> FALSE, split2 |-> FALSE,
                 split3 |-> FALSE, d1 |-> d1, d3 |-> d3, u |-> u, v |-> v,
                 ueval |-> TRUE, veval |-> TRUE]
        ELSE
            [split |-> FALSE, split1 |-> FALSE, split2 |-> FALSE,
             split3 |-> FALSE, d1 |-> d1, d3 |-> d3, u |-> u, v |-> v,
             ueval |-> TRUE, veval |-> TRUE]

\* The split decision adding c1 only when c2 was not split by its own rule.
SplitDecisionOwnRule(P, s1, s2, s3, d1sq, d2sq, d3sq, d2) ==
    LET condA   == s3 > Mul(d2, P.b)
        evalB   == s3 > 0 /\ ~condA
        s1ps3   == IF evalB THEN s1 + s3 ELSE 0
        d2split == evalB /\ s1 + s3 > 0 /\ s1 + s3 > Mul(d2, P.b)
        split3  == s3 > 0 /\
                     ( \/ condA
                       \/ (d2split /\ s3 >= s1)
                       \/ (P.bu < P.b /\ Mul(SQR(s3), d3sq) > SQR(Mul(P.bu, d2sq)))
                       \/ (P.bv < P.b /\ s3 > Mul(d2, P.bv)) )
        temp    == Mul(Mul(factor2, SQR(s3)), d3sq)
        split1a == s1 > 0 /\
                     ( \/ d2split
                       \/ (s3 = 0 /\ s3 > Mul(d2, P.b))
                       \/ SQR(s1) > d3sq )
        split2a == s2 > 0 /\
                     ( \/ SQR(s2) > d3sq
                       \/ (s2 > s3 /\ d3sq > SQR(d2 - s2 + s3))
                       \/ (s2 > s1 /\ d1sq < SQR(d2 + s2 - s1)) )
        d3      == sqrt(d3sq)
        u       == IF d2 = 0 THEN 0 ELSE Div(d3, d2)
        s1ps2   == s1 + s2
        ucond   == SQR(s1ps2 + Mul(s1ps3, u)) > Mul(d2sq, P.busq)
        d1      == sqrt(d1sq)
        v       == IF d3 = 0 THEN 0 ELSE Div(d1 - d2, d3)
        vcond   == SQR(Mul(s1ps2, R(1) + v)) > Mul(d3sq, P.bvsq)
        split12 == split1a \/ split2a \/ ucond \/ vcond
    IN  IF split3 THEN
            [split |-> TRUE, split1 |-> Mul(SQR(s1), d2sq) > temp,
             split2 |-> Mul(SQR(s2), d2sq) > temp, split3 |-> TRUE,
             d1 |-> R(-1), d3 |-> R(-1), u |-> R(-1), v |-> R(-1),
             ueval |-> FALSE, veval |-> FALSE]
        ELSE IF s1 > 0 \/ s2 > 0 THEN
            IF split12 THEN
                [split |-> TRUE, split1 |-> split1a \/ (~split2a /\ s1 >= s2),
                 split2 |-> split2a \/ s2 >= s1, split3 |-> FALSE,
                 d1 |-> R(-1), d3 |-> R(-1), u |-> R(-1), v |-> R(-1),
                 ueval |-> ~(split1a \/ split2a),
                 veval |-> ~(split1a \/ split2a \/ ucond)]
            ELSE
                [split |-> FALSE, split1 |-> FALSE, split2 |-> FALSE,
                 split3 |-> FALSE, d1 |-> d1, d3 |-> d3, u |-> u, v |-> v,
                 ueval |-> TRUE, veval |-> TRUE]
        ELSE
            [split |-> FALSE, split1 |-> FALSE, split2 |-> FALSE,
             split3 |-> FALSE, d1 |-> d1, d3 |-> d3, u |-> u, v |-> v,
             ueval |-> TRUE, veval |-> TRUE]

\* The split decision of process111Sorted: which cells to split, and the
\* values d1, d3, u, v the decision leaves behind when nothing is split.
\* ueval and veval tell whether the quotients u = d3/d2 and v = (d1-d2)/d3
\* were evaluated on the path taken; a quotient by 0 is held as 0.
SplitDecision(P, s1, s2, s3, d1sq, d2sq, d3sq, d2) ==
    LET condA   == s3 > Mul(d2, P.b)
        evalB   == s3 > 0 /\ ~condA
        s1ps3   == IF evalB THEN s1 + s3 ELSE 0
        d2split == evalB /\ s1 + s3 > 0 /\ s1 + s3 > Mul(d2, P.b)
        split3  == s3 > 0 /\
                     ( \/ condA
                       \/ (d2split /\ s3 >= s1)
                       \/ (P.bu < P.b /\ Mul(SQR(s3), d3sq) > SQR(Mul(P.bu, d2sq)))
                       \/ (P.bv < P.b /\ s3 > Mul(d2, P.bv)) )
        temp    == Mul(Mul(factor2, SQR(s3)), d3sq)
        split1a == s1 > 0 /\
                     ( \/ d2split
                       \/ (s3 = 0 /\ s3 > Mul(d2, P.b))
                       \/ SQR(s1) > d3sq )
        split2a == s2 > 0 /\
                     ( \/ SQR(s2) > d3sq
                       \/ (s2 > s3 /\ d3sq > SQR(d2 - s2 + s3))
                       \/ (s2 > s1 /\ d1sq < SQR(d2 + s2 - s1)) )
        d3      == sqrt(d3sq)
        u       == IF d2 = 0 THEN 0 ELSE Div(d3, d2)
        s1ps2   == s1 + s2
        ucond   == SQR(s1ps2 + Mul(s1ps3, u)) > Mul(d2sq, P.busq)
        d1      == sqrt(d1sq)
        v       == IF d3 = 0 THEN 0 ELSE Div(d1 - d2, d3)
        vcond   == SQR(Mul(s1ps2, R(1) + v)) > Mul(d3sq, P.bvsq)
        split12 == split1a \/ split2a \/ ucond \/ vcond
    IN  IF split3 THEN
            [split |-> TRUE, split1 |-> Mul(SQR(s1), d2sq) > temp,
             split2 |-> Mul(SQR(s2), d2sq) > temp, split3 |-> TRUE,
             d1 |-> R(-1), d3 |-> R(-1), u |-> R(-1), v |-> R(-1),
             ueval |-> FALSE, veval |-> FALSE]
        ELSE IF s1 > 0 \/ s2 > 0 THEN
            IF split12 THEN
                [split |-> TRUE, split1 |-> split1a \/ s1 >= s2,
                 split2 |-> split2a \/ s2 >= s1, split3 |-> FALSE,
                 d1 |-> R(-1), d3 |-> R(-1), u |-> R(-1), v |-> R(-1),
                 ueval |-> ~(split1a \/ split2a),
                 veval |-> ~(split1a \/ split2a \/ ucond)]
            ELSE
                [split |-> FALSE, split1 |-> FALSE, split2 |-> FALSE,
                 split3 |-> FALSE, d1 |-> d1, d3 |-> d3, u |-> u, v |-> v,
                 ueval |-> TRUE, veval |-> TRUE]
        ELSE
            [split |-> FALSE, split1 |-> FALSE, split2 |-> FALSE,
             split3 |-> FALSE, d1 |-> d1, d3 |-> d3, u |-> u, v |-> v,
             ueval |-> TRUE, veval |-> TRUE]

\* The cells a split replaces c by; c itself when it is not split.
Parts(c, splitc) == IF splitc THEN <<getLeft(c), getRight(c)>> ELSE <<c>>

\* The Asserts on the bin numbers and the index.
BinAsserts(P, kr0, kr, ku0, ku, kv0, kv1, kv, index) ==
    AssertEv(kr0 >= 0, "kr >= 0") \o AssertEv(kr0 <= P.nbins, "kr <= nbins")
    \o AssertEv(kr < P.nbins, "kr < nbins")
    \o AssertEv(ku0 < P.nubins \/ ku0 = P.nubins, "ku == nubins")
    \o AssertEv(ku >= 0, "ku >= 0") \o AssertEv(ku < P.nubins, "ku < nubins")
    \o AssertEv(kv0 < P.nvbins \/ kv0 = P.nvbins, "kv == nvbins")
    \o AssertEv(kv1 >= 0, "kv >= 0") \o AssertEv(kv1 < P.nvbins, "kv < nvbins")
    \o AssertEv(kv >= 0, "kv >= 0") \o AssertEv(kv < P.nvbins2, "kv < nvbins2")
    \o AssertEv(index >= 0, "index >= 0") \o AssertEv(index < P.ntot, "index < ntot")

\* The call of directProcess111 without the check of the index.
Index111Unchecked(P, this, c1, c2, c3, d1, d2, d3, u, vs, kr0, kr, ku0, ku, kv0, kv1, kv, index) ==
    BinAsserts(P, kr0, kr, ku0, ku, kv0, kv1, kv, index) \o
    << [kind |-> "commit",
        acc |-> this, c1 |-> CellRef(c1), c2 |-> CellRef(c2), c3 |-> CellRef(c3),
        d1 |-> d1, d2 |-> d2, d3 |-> d3, u |-> u, v |-> vs, index |-> index] >>

\* The index check and the call of directProcess111, v and kv signed.
Index111(P, this, c1, c2, c3, d1, d2, d3, u, vs, kr0, kr, ku0, ku, kv0, kv1, kv, index) ==
    BinAsserts(P, kr0, kr, ku0, ku, kv0, kv1, kv, index) \o
    << [kind |-> IF index < 0 \/ index >= P.ntot THEN "drop" ELSE "commit",
        acc |-> this, c1 |-> CellRef(c1), c2 |-> CellRef(c2), c3 |-> CellRef(c3),
        d1 |-> d1, d2 |-> d2, d3 |-> d3, u |-> u, v |-> vs, index |-> index] >>

\* The mirroring of kv without the change of sign of v.
Sign111Unsigned(P, this, c1, c2, c3, d1, d2, d3, u, v, kr0, kr, ku0, ku, kv0, kv1, ccw) ==
    Index111(P, this, c1, c2, c3, d1, d2, d3, u, v,
             kr0, kr, ku0, ku, kv0, kv1,
             IF ~ccw THEN P.nvbins - kv1 - 1 ELSE kv1 + P.nvbins,
             kr * P.nuv + ku * P.nvbins2
                + (IF ~ccw THEN P.nvbins - kv1 - 1 ELSE kv1 + P.nvbins))

\* The sign of v with the lower half of the v bins not mirrored.
Sign111Unmirrored(P, this, c1, c2, c3, d1, d2, d3, u, v, kr0, kr, ku0, ku, kv0, kv1, ccw) ==
    Index111(P, this, c1, c2, c3, d1, d2, d3, u, IF ~ccw THEN -v ELSE v,
             kr0, kr, ku0, ku, kv0, kv1,
             IF ~ccw THEN kv1 ELSE kv1 + P.nvbins,
             kr * P.nuv + ku * P.nvbins2
                + (IF ~ccw THEN kv1 ELSE kv1 + P.nvbins))

\* The sign of v: v and kv mirrored when (c1, c2, c3) is not counter-clockwise.
Sign111(P, this, c1, c2, c3, d1, d2, d3, u, v, kr0, kr, ku0, ku, kv0, kv1, ccw) ==
    Index111(P, this, c1, c2, c3, d1, d2, d3, u, IF ~ccw THEN -v ELSE v,
             kr0, kr, ku0, ku, kv0, kv1,
             IF ~ccw THEN P.nvbins - kv1 - 1 ELSE kv1 + P.nvbins,
             kr * P.nuv + ku * P.nvbins2
                + (IF ~ccw THEN P.nvbins - kv1 - 1 ELSE kv1 + P.nvbins))

\* The bin numbers kr, ku, kv with their rounding guards.
Bin111(P, this, c1, c2, c3, d1, d2, d3, u, v, kr0, ku0, kv0) ==
    Sign111(P, this, c1, c2, c3, d1, d2, d3, u, v,
            kr0, IF kr0 = P.nbins THEN kr0 - 1 ELSE kr0,
            ku0, IF ku0 >= P.nubins THEN ku0 - 1 ELSE ku0,
            kv0, IF kv0 >= P.nvbins THEN kv0 - 1 ELSE kv0,
            CCW(getPos(c1), getPos(c2), getPos(c3)))

\* The range checks with the upper bounds taken as inclusive.
InRange111Closed(P, d2, u, v) ==
    /\ ~(d2 < P.minsep \/ d2 > P.maxsep)
    /\ ~(u < P.minu \/ u > P.maxu)
    /\ ~(v < P.minv \/ v > P.maxv)

\* The range checks of the no-split branch: TRUE when the triangle is kept.
InRange111(P, d2, u, v) ==
    /\ ~(d2 < P.minsep \/ d2 >= P.maxsep)
    /\ ~(u < P.minu \/ u >= P.maxu)
    /\ ~(v < P.minv \/ v >= P.maxv)

\* The no-split branch of process111Sorted: range checks, binning, commit.
Commit111(P, this, c1, c2, c3, d1, d2, d3, u, v) ==
    AssertEv(d1 > 0, "d1 > 0") \o AssertEv(d3 > 0, "d3 > 0")
    \o AssertEv(u > 0, "u > 0") \o AssertEv(v >= 0, "v >= 0")
    \o IF InRange111(P, d2, u, v)
       THEN Bin111(P, this, c1, c2, c3, d1, d2, d3, u, v,
                   LogBin(d2, P.minsep, P.ebinsize),
                   (u - P.minu) \div P.ubinsize,
                   (v - P.minv) \div P.vbinsize)
       ELSE <<>>

RECURSIVE process111(_, _, _, _, _, _, _, _)

\* The recursive calls of the split branch: every combination of the parts;
\* k1, k2, k3 are the sides passed through (0 when not passed).
Split111(P, bcs, p1, p2, p3, k1, k2, k3) ==
    Flatten([i \in 1..Len(p1) |->
      Flatten([j \in 1..Len(p2) |->
        Flatten([k \in 1..Len(p3) |->
          process111(P, bcs, p1[i], p2[j], p3[k], k1, k2, k3)])])])

\* The split branch passing on, when one cell only is split, a side that
\* touches the split cell (d2sq for split 3 only, d1sq for split 2 only,
\* d3sq for split 1 only).
Decided111Crossed(P, bcs, c1, c2, c3, d1sq, d2sq, d3sq, s1, s2, s3, d2, sd) ==
    IF sd.split THEN
        Split111(P, bcs, Parts(c1, sd.split1), Parts(c2, sd.split2),
                 Parts(c3, sd.split3),
                 IF sd.split1 /\ ~sd.split2 /\ ~sd.split3 THEN d3sq ELSE 0,
                 IF sd.split2 /\ ~sd.split1 /\ ~sd.split3 THEN d1sq ELSE 0,
                 IF sd.split3 /\ ~sd.split1 /\ ~sd.split2 THEN d2sq ELSE 0)
    ELSE Commit111(P, bcs[1], c1, c2, c3, sd.d1, d2, sd.d3, sd.u, sd.v)

\* process111Sorted after the split decision sd.  A split of a cell of size 0
\* fails its Assert; where the Assert is compiled out getLeft() of that cell
\* is null and the call ends at its dereference.
Decided111(P, bcs, c1, c2, c3, d1sq, d2sq, d3sq, s1, s2, s3, d2, sd) ==
    IF sd.split THEN
        LET failed == AssertEv(~sd.split1 \/ s1 > 0, "split1 == false || s1 > 0")
                      \o AssertEv(~sd.split2 \/ s2 > 0, "split2 == false || s2 > 0")
                      \o AssertEv(~sd.split3 \/ s3 > 0, "split3 == false || s3 > 0")
        IN  IF failed # <<>> THEN failed
            ELSE Split111(P, bcs, Parts(c1, sd.split1), Parts(c2, sd.split2),
                          Parts(c3, sd.split3),
                          IF sd.split1 /\ ~sd.split2 /\ ~sd.split3 THEN d1sq ELSE 0,
                          IF sd.split2 /\ ~sd.split1 /\ ~sd.split3 THEN d2sq ELSE 0,
                          IF sd.split3 /\ ~sd.split1 /\ ~sd.split2 THEN d3sq ELSE 0)
    ELSE Commit111(P, bcs[1], c1, c2, c3, sd.d1, d2, sd.d3, sd.u, sd.v)

\* process111Sorted after stop111 returned st.
Stopped111(P, bcs, c1, c2, c3, d1sq, d2sq, d3sq, s1, s2, s3, st) ==
    << [kind |-> "sorted", c1 |-> CellRef(c1), c2 |-> CellRef(c2), c3 |-> CellRef(c3),
        pts |-> <<LeafPos(c1), LeafPos(c2), LeafPos(c3)>>,
        d1sq |-> d1sq, d2sq |-> d2sq, d3sq |-> d3sq, stop |-> st.stop] >>
    \o AssertEv(d1sq >= d2sq, "d1sq >= d2sq") \o AssertEv(d2sq >= d3sq, "d2sq >= d3sq")
    \o IF st.stop THEN <<>>
       ELSE Decided111(P, bcs, c1, c2, c3, d1sq, d2sq, d3sq, s1, s2, s3, st.d2,
                       SplitDecision(P, s1, s2, s3, d1sq, d2sq, d3sq, st.d2))

process111Sorted(P, bcs, c1, c2, c3, d1sq, d2sq, d3sq) ==
    Stopped111(P, bcs, c1, c2, c3, d1sq, d2sq, d3sq,
               getSize(c1), getSize(c2), getSize(c3),
               stop111(d1sq, d2sq, d3sq, 0, getSize(c1), getSize(c2), getSize(c3),
                       P.minsep, P.minsepsq, P.maxsep, P.maxsepsq,
                       P.minu, P.minusq, P.maxu, P.maxusq,
                       P.minv, P.minvsq, P.maxv, P.maxvsq))

\* process111Sorted called with the arguments of process111 as they came.
Sort111Unsorted(bc123, bc132, bc213, bc231, bc312, bc321, c1, c2, c3, d1sq, d2sq, d3sq) ==
    << <<bc123, bc132, bc213, bc231, bc312, bc321>>, c1, c2, c3, d1sq, d2sq, d3sq >>

\* The sort with the accumulators left in the order of the arguments.
Sort111Unrouted(bc123, bc132, bc213, bc231, bc312, bc321, c1, c2, c3, d1sq, d2sq, d3sq) ==
    LET bcs == <<bc123, bc132, bc213, bc231, bc312, bc321>>
    IN  IF d1sq > d2sq THEN
            IF d2sq > d3sq THEN <<bcs, c1, c2, c3, d1sq, d2sq, d3sq>>
            ELSE IF d1sq > d3sq THEN <<bcs, c1, c3, c2, d1sq, d3sq, d2sq>>
            ELSE <<bcs, c3, c1, c2, d3sq, d1sq, d2sq>>
        ELSE
            IF d1sq > d3sq THEN <<bcs, c2, c1, c3, d2sq, d1sq, d3sq>>
            ELSE IF d2sq > d3sq THEN <<bcs, c2, c3, c1, d2sq, d3sq, d1sq>>
            ELSE <<bcs, c3, c2, c1, d3sq, d2sq, d1sq>>

\* The sort of process111: the accumulators, cells and sides, in the order
\* in which the branch taken passes them to process111Sorted.
Sort111(bc123, bc132, bc213, bc231, bc312, bc321, c1, c2, c3, d1sq, d2sq, d3sq) ==
    IF d1sq > d2sq THEN
        IF d2sq > d3sq THEN
            << <<bc123, bc132, bc213, bc231, bc312, bc321>>, c1, c2, c3, d1sq, d2sq, d3sq >>
        ELSE IF d1sq > d3sq THEN
            << <<bc132, bc123, bc312, bc321, bc213, bc231>>, c1, c3, c2, d1sq, d3sq, d2sq >>
        ELSE
            << <<bc312, bc321, bc132, bc123, bc231, bc213>>, c3, c1, c2, d3sq, d1sq, d2sq >>
    ELSE
        IF d1sq > d3sq THEN
            << <<bc213, bc231, bc123, bc132, bc321, bc312>>, c2, c1, c3, d2sq, d1sq, d3sq >>
        ELSE IF d2sq > d3sq THEN
            << <<bc231, bc213, bc321, bc312, bc123, bc132>>, c2, c3, c1, d2sq, d3sq, d1sq >>
        ELSE
            << <<bc321, bc312, bc231, bc213, bc132, bc123>>, c3, c2, c1, d3sq, d2sq, d1sq >>

\* The call of process111Sorted with the sorted arguments a.
Sorted111(P, a) == process111Sorted(P, a[1], a[2], a[3], a[4], a[5], a[6], a[7])

\* process111 without the returns on a cell of weight 0.
process111Weightless(P, bcs, c1, c2, c3, d1sqIn, d2sqIn, d3sqIn) ==
    Sorted111(P,
      Sort111(bcs[1], bcs[2], bcs[3], bcs[4], bcs[5], bcs[6], c1, c2, c3,
              IF d1sqIn = 0 THEN DistSq(getPos(c2), getPos(c3), 0, 0) ELSE d1sqIn,
              IF d2sqIn = 0 THEN DistSq(getPos(c1), getPos(c3), 0, 0) ELSE d2sqIn,
              IF d3sqIn = 0 THEN DistSq(getPos(c1), getPos(c2), 0, 0) ELSE d3sqIn))

process111(P, bcs, c1, c2, c3, d1sqIn, d2sqIn, d3sqIn) ==
    IF getW(c1) = 0 \/ getW(c2) = 0 \/ getW(c3) = 0 THEN <<>>
    ELSE Sorted111(P,
           Sort111(bcs[1], bcs[2], bcs[3], bcs[4], bcs[5], bcs[6], c1, c2, c3,
                   IF d1sqIn = 0 THEN DistSq(getPos(c2), getPos(c3), 0, 0) ELSE d1sqIn,
                   IF d2sqIn = 0 THEN DistSq(getPos(c1), getPos(c3), 0, 0) ELSE d2sqIn,
                   IF d3sqIn = 0 THEN DistSq(getPos(c1), getPos(c2), 0, 0) ELSE d3sqIn))

\* ------------------------------------------------------------------------
\* process12, process3
\* ------------------------------------------------------------------------

\* The early returns with the lower test on the centres' distance alone.
Return12Near(P, c1, c2) ==
    LET s2    == getSize(c2)
        s1    == getSize(c1)
        dsq   == DistSq(getPos(c1), getPos(c2), s1, s2)
        s1ps2 == s1 + s2
    IN  IF s2 = 0 THEN "size2 == 0"
        ELSE IF s2 < P.halfmind3 THEN "size2 < halfmind3"
        ELSE IF dsq < P.minsepsq /\ s1ps2 < P.minsep
             THEN "d2 cannot be as large as minsep"
        ELSE IF dsq >= P.maxsepsq /\ dsq >= SQR(P.maxsep + s1ps2)
             THEN "d2 cannot be as small as maxsep"
        ELSE IF /\ dsq > SQR(s1 + s2)
                /\ Mul(P.minusq, dsq) > SQR(2 * s2 + Mul(P.minu, s1 + s2))
             THEN "u cannot be as large as minu"
        ELSE "none"

\* The early return of process12 taken after the weight tests, "none" when
\* the call goes on to the children of c2.
Return12(P, c1, c2) ==
    LET s2    == getSize(c2)
        s1    == getSize(c1)
        dsq   == DistSq(getPos(c1), getPos(c2), s1, s2)
        s1ps2 == s1 + s2
    IN  IF s2 = 0 THEN "size2 == 0"
        ELSE IF s2 < P.halfmind3 THEN "size2 < halfmind3"
        ELSE IF dsq < P.minsepsq /\ s1ps2 < P.minsep /\ dsq < SQR(P.minsep - s1ps2)
             THEN "d2 cannot be as large as minsep"
        ELSE IF dsq >= P.maxsepsq /\ dsq >= SQR(P.maxsep + s1ps2)
             THEN "d2 cannot be as small as maxsep"
        ELSE IF /\ dsq > SQR(s1 + s2)
                /\ Mul(P.minusq, dsq) > SQR(2 * s2 + Mul(P.minu, s1 + s2))
             THEN "u cannot be as large as minu"
        ELSE "none"

RECURSIVE process12(_, _, _, _, _, _)
\* this.process12(bc212, bc221, c1, c2).  getLeft() of a cell without
\* children is null: the Assert fails, or the call ends at the dereference.
process12(P, this, bc212, bc221, c1, c2) ==
    IF getW(c1) = 0 THEN <<>>
    ELSE IF getW(c2) = 0 THEN <<>>
    ELSE IF Return12(P, c1, c2) # "none" THEN <<>>
    ELSE IF Len(c2.kids) # 2 THEN AssertEv(FALSE, "c2.getLeft() && c2.getRight()")
    ELSE
        process12(P, this, bc212, bc221, c1, getLeft(c2))
        \o process12(P, this, bc212, bc221, c1, getRight(c2))
        \o process111(P, <<this, this, bc212, bc221, bc212, bc221>>,
                      c1, getLeft(c2), getRight(c2), 0, 0, 0)

\* The early return of process3 taken after the weight test.
Return3(P, c1) == getSize(c1) < P.halfminsep

RECURSIVE process3(_, _, _)
\* this.process3(c1)
process3(P, this, c1) ==
    IF getW(c1) = 0 THEN <<>>
    ELSE IF Return3(P, c1) THEN <<>>
    ELSE IF Len(c1.kids) # 2 THEN AssertEv(FALSE, "c1.getLeft() && c1.getRight()")
    ELSE
        process3(P, this, getLeft(c1))
        \o process3(P, this, getRight(c1))
        \o process12(P, this, this, this, getLeft(c1), getRight(c1))
        \o process12(P, this, this, this, getRight(c1), getLeft(c1))

\* ------------------------------------------------------------------------
\* Accumulators (Corr3<NData,NData,NData>)
\* ------------------------------------------------------------------------

Bins(P) == 0 .. (P.ntot - 1)

\* clear(): every array zeroed (the coord tag is kept beside the arrays).
clear(P) ==
    [ntri |-> [i \in Bins(P) |-> 0], weight |-> [i \in Bins(P) |-> 0],
     meand1 |-> [i \in Bins(P) |-> 0], meand2 |-> [i \in Bins(P) |-> 0],
     meand3 |-> [i \in Bins(P) |-> 0], meanu |-> [i \in Bins(P) |-> 0],
     meanv |-> [i \in Bins(P) |-> 0]]

\* Corr3(const Corr3& rhs, bool copy_data): new arrays, copied or cleared.
Corr3Copy(P, rhs, copy_data) == IF copy_data THEN rhs ELSE clear(P)

\* duplicate(): a new accumulator with the same parameters and zeroed arrays.
duplicate(P, rhs) == Corr3Copy(P, rhs, FALSE)

\* Assignment in place of addition: the left side's arrays are overwritten.
PlusEqAssign(P, lhs, rhs) == rhs

\* operator+=
PlusEq(P, lhs, rhs) ==
    [ntri   |-> [i \in Bins(P) |-> lhs.ntri[i] + rhs.ntri[i]],
     weight |-> [i \in Bins(P) |-> lhs.weight[i] + rhs.weight[i]],
     meand1 |-> [i \in Bins(P) |-> lhs.meand1[i] + rhs.meand1[i]],
     meand2 |-> [i \in Bins(P) |-> lhs.meand2[i] + rhs.meand2[i]],
     meand3 |-> [i \in Bins(P) |-> lhs.meand3[i] + rhs.meand3[i]],
     meanu  |-> [i \in Bins(P) |-> lhs.meanu[i] + rhs.meanu[i]],
     meanv  |-> [i \in Bins(P) |-> lhs.meanv[i] + rhs.meanv[i]]]

\* addData(rhs): *this += rhs.
addData(P, lhs, rhs) == PlusEq(P, lhs, rhs)

\* A commit that leaves the weight array alone.
finishProcessNoWeight(a, ev) ==
    [a EXCEPT !.ntri[ev.index] = @ + ev.c1.n * ev.c2.n * ev.c3.n,
              !.meand1[ev.index] = @ + Mul(Mul(Mul(ev.c1.w, ev.c2.w), ev.c3.w), ev.d1),
              !.meand2[ev.index] = @ + Mul(Mul(Mul(ev.c1.w, ev.c2.w), ev.c3.w), ev.d2),
              !.meand3[ev.index] = @ + Mul(Mul(Mul(ev.c1.w, ev.c2.w), ev.c3.w), ev.d3),
              !.meanu[ev.index] = @ + Mul(Mul(Mul(ev.c1.w, ev.c2.w), ev.c3.w), ev.u),
              !.meanv[ev.index] = @ + Mul(Mul(Mul(ev.c1.w, ev.c2.w), ev.c3.w), ev.v)]

\* finishProcess on the arrays a, for the commit event ev; ntri counts in units.
finishProcess(a, ev) ==
    LET nnn   == ev.c1.n * ev.c2.n * ev.c3.n
        www   == Mul(Mul(ev.c1.w, ev.c2.w), ev.c3.w)
        index == ev.index
    IN  [a EXCEPT !.ntri[index]   = @ + nnn,
                  !.meand1[index] = @ + Mul(www, ev.d1),
                  !.meand2[index] = @ + Mul(www, ev.d2),
                  !.meand3[index] = @ + Mul(www, ev.d3),
                  !.meanu[index]  = @ + Mul(www, ev.u),
                  !.meanv[index]  = @ + Mul(www, ev.v),
                  !.weight[index] = @ + www]

\* directProcess111
directProcess111(a, ev) == finishProcess(a, ev)

RECURSIVE Run(_, _)
\* The effect of a sequence of events on the accumulators h (reference -> arrays).
Run(h, evs) ==
    IF Len(evs) = 0 THEN h
    ELSE LET ev == Head(evs)
         IN  Run(IF ev.kind = "commit"
                 THEN [h EXCEPT ![ev.acc] = directProcess111(@, ev)]
                 ELSE h,
                 Tail(evs))

\* The commits among a sequence of events.
Commits(evs) == SelectSeq(evs, LAMBDA e : e.kind = "commit")

\* ------------------------------------------------------------------------
\* The bodies of the three outer loops
\* ------------------------------------------------------------------------
\* Fields are sequences of top-level cells; the source's index i is i+1 here.

\* The auto loop body with process12 called in one order only.
AutoBodyOneOrder(P, bc3, field, i) ==
    LET n1 == Len(field)
        c1 == field[i]
    IN  process3(P, bc3, c1) \o
        Flatten([jj \in 1..(n1 - i) |->
            LET j  == i + jj
                c2 == field[j]
            IN  process12(P, bc3, bc3, bc3, c1, c2) \o
                Flatten([kk \in 1..(n1 - j) |->
                    process111(P, <<bc3, bc3, bc3, bc3, bc3, bc3>>,
                               c1, c2, field[j + kk], 0, 0, 0)])])

\* process(field): auto, iteration i, on the accumulator bc3.
AutoBody(P, bc3, field, i) ==
    LET n1 == Len(field)
        c1 == field[i]
    IN  process3(P, bc3, c1) \o
        Flatten([jj \in 1..(n1 - i) |->
            LET j  == i + jj
                c2 == field[j]
            IN  process12(P, bc3, bc3, bc3, c1, c2) \o
                process12(P, bc3, bc3, bc3, c2, c1) \o
                Flatten([kk \in 1..(n1 - j) |->
                    process111(P, <<bc3, bc3, bc3, bc3, bc3, bc3>>,
                               c1, c2, field[j + kk], 0, 0, 0)])])

\* The cross-12 loop body with corr212 and corr221 exchanged in the last two
\* arguments of process111.
Cross12BodySwapped(P, bc122, bc212, bc221, field1, field2, i) ==
    LET n2 == Len(field2)
        c1 == field1[i]
    IN  Flatten([j \in 1..n2 |->
            LET c2 == field2[j]
            IN  process12(P, bc122, bc212, bc221, c1, c2) \o
                Flatten([kk \in 1..(n2 - j) |->
                    process111(P, <<bc122, bc122, bc212, bc221, bc221, bc212>>,
                               c1, c2, field2[j + kk], 0, 0, 0)])])

\* The cross-12 loop body with the inner loop over every k other than j.
Cross12BodyBothOrders(P, bc122, bc212, bc221, field1, field2, i) ==
    LET n2 == Len(field2)
        c1 == field1[i]
    IN  Flatten([j \in 1..n2 |->
            LET c2 == field2[j]
            IN  process12(P, bc122, bc212, bc221, c1, c2) \o
                Flatten([k \in 1..n2 |->
                    IF k = j THEN <<>>
                    ELSE process111(P, <<bc122, bc122, bc212, bc221, bc212, bc221>>,
                                    c1, c2, field2[k], 0, 0, 0)])])

\* process(corr212, corr221, field1, field2): cross-12, iteration i.
Cross12Body(P, bc122, bc212, bc221, field1, field2, i) ==
    LET n2 == Len(field2)
        c1 == field1[i]
    IN  Flatten([j \in 1..n2 |->
            LET c2 == field2[j]
            IN  process12(P, bc122, bc212, bc221, c1, c2) \o
                Flatten([kk \in 1..(n2 - j) |->
                    process111(P, <<bc122, bc122, bc212, bc221, bc212, bc221>>,
                               c1, c2, field2[j + kk], 0, 0, 0)])])

\* process(corr132, ..., field1, field2, field3): cross-111, iteration i;
\* bcs = <<bc123, bc132, bc213, bc231, bc312, bc321>>.
Cross111Body(P, bcs, field1, field2, field3, i) ==
    LET c1 == field1[i]
    IN  Flatten([j \in 1..Len(field2) |->
            Flatten([k \in 1..Len(field3) |->
                process111(P, bcs, c1, field2[j], field3[k], 0, 0, 0)])])

\* ------------------------------------------------------------------------
\* Inputs: parameter sets and fields
\* ------------------------------------------------------------------------

\* b = bu = bv = 0: every cell is split down to its points.
\* minsep 1, maxsep 16, two log bins of ratio 4; u and v in [0, 1), two bins each.
ParExact ==
    BaseCorr3(R(1), R(16), 2, R(4), 0, 0, R(1), 2, R(1) \div 2, 0, 0, R(1), 2, R(1) \div 2, 0)

\* The same grid with tolerances b = bu = bv = 0.2: cells may be committed whole.
ParTol ==
    BaseCorr3(R(1), R(16), 2, R(4), R(1) \div 5, 0, R(1), 2, R(1) \div 2, R(1) \div 5, 0, R(1), 2, R(1) \div 2, R(1) \div 5)

\* A narrow range: d2 in [2, 8), u in [0.3, 0.9), |v| in [0.1, 0.9), b = 0.1.
ParRange ==
    BaseCorr3(R(2), R(8), 2, R(2), R(1) \div 10, (3 * R(1)) \div 10, (9 * R(1)) \div 10, 2, (3 * R(1)) \div 10, R(1) \div 10, R(1) \div 10, (9 * R(1)) \div 10, 2, (4 * R(1)) \div 10, R(1) \div 10)

ParamSets == {ParExact, ParTol, ParRange}

\* Points in general position: no triple is collinear or has two equal sides.
ptA == Leaf("A", 0, 0, 1, 1)
ptB == Leaf("B", 3, 1, 1, 1)
ptC == Leaf("C", 1, 4, 1, 1)
ptD == Leaf("D", 5, 2, 1, 1)
ptE == Leaf("E", 2, 6, 1, 1)
\* An isosceles triangle with its two longest sides equal (d1 = d2).
ptT == Leaf("T", 0, 0, 1, 1)
ptU == Leaf("U", 2, 0, 1, 1)
ptV == Leaf("V", 1, 4, 1, 1)
\* A close pair and two far points.
ptP == Leaf("P", 0, 0, 1, 1)
ptQ == Leaf("Q", 1, 0, 1, 1)
ptX == Leaf("X", 6, 0, 1, 1)
ptY == Leaf("Y", 6, 3, 1, 1)
\* A point beside P, off the line through P and X.
ptS == Leaf("S", 0, 1, 1, 1)

cellAB == Node("AB", ptA, ptB)
cellCD == Node("CD", ptC, ptD)
cellPQ == Node("PQ", ptP, ptQ)
cellXY == Node("XY", ptX, ptY)
cellPS == Node("PS", ptP, ptS)

FieldGen == <<cellAB, cellCD, ptE>>
FieldTree == << Node("ABCD", cellAB, cellCD) >>
FieldIso == <<ptT, ptU, ptV>>
FieldPair == <<cellPQ, ptX, ptY>>
FieldNear == <<cellPS, ptX, ptY>>

\* Every order of the top-level cells of a field.
Orders(field) ==
    { [i \in 1..Len(field) |-> field[pm[i]]] : pm \in Permutations(1..Len(field)) }

\* The field as field number f of a call.
AsField(field, f) == [i \in 1..Len(field) |-> InField(field[i], f)]

AutoFields == Orders(FieldGen) \cup Orders(FieldIso) \cup {FieldTree, FieldPair, FieldNear}

Cross12Fields ==
    { << <<ptA, ptB>>, <<cellCD, ptE>> >>,
      << <<ptT>>, <<ptU, ptV>> >>,
      << <<ptV>>, <<ptT, ptU>> >>,
      << <<cellPQ>>, <<cellXY>> >> }

Cross111Fields ==
    { << <<ptA, ptB>>, <<cellCD>>, <<ptE>> >>,
      << <<ptT>>, <<ptU>>, <<ptV>> >>,
      << <<cellPQ>>, <<ptX>>, <<ptY>> >> }

\* The largest number of threads of the parallel region.
MaxWorkers == 2

\* The coordinate kind of the fields (Flat).
Flat == 1

\* ------------------------------------------------------------------------
\* State
\* ------------------------------------------------------------------------
\* Accumulators are referred to by <<0, k>> (the k-th master of the call:
\* this, then the arguments in order) and <<w, k>> (thread w's duplicate of it).

VARIABLES
    par,        \* the parameters of the accumulators
    heap,       \* reference -> arrays, for every accumulator that exists
    coords,     \* the coord tag _coords of each master, -1 when unset
    phase,      \* "idle", "running", "returned"
    call,       \* the process call: kind, fields, number of threads
    before,     \* the masters' arrays when the call began
    pc,         \* thread -> "start", "loop", "reduce", "done"
    next_i,     \* next iteration of the dynamically scheduled outer loop
    crit,       \* the thread inside the (unnamed) critical section, or 0
    rk,         \* thread -> the next addData of its reduction block
    reduced,    \* thread -> number of reduction blocks it has completed
    log,        \* iteration -> [w: the thread that ran it, evs: its events]
    asserts,    \* the build has the Assert macro active (it throws)
    ncalls      \* number of process calls made on the accumulators

vars == <<par, heap, coords, phase, call, before, pc, next_i, crit, rk, reduced, log,
          asserts, ncalls>>

Masters == { <<0, k>> : k \in 1..6 }

\* Number of accumulators of a call: this and its arguments.
NAcc(kind) == CASE kind = "auto" -> 1 [] kind = "cross12" -> 3 [] OTHER -> 6

Threads == DOMAIN pc

N1 == Len(call.f1)

\* The arrays of an accumulator left by an earlier process call (auto, FieldPair).
PriorData(P) ==
    Run([r \in {<<0, 1>>} |-> clear(P)],
        Flatten([i \in 1..Len(FieldPair) |-> AutoBody(P, <<0, 1>>, FieldPair, i)]))[<<0, 1>>]

Init ==
    /\ par \in ParamSets
    /\ \E prior \in BOOLEAN :
         /\ heap = [r \in Masters |-> IF prior THEN PriorData(par) ELSE clear(par)]
         /\ coords = [k \in 1..6 |-> IF prior THEN Flat ELSE -1]
    /\ phase = "idle"
    /\ call = [kind |-> "none", f1 |-> <<>>, f2 |-> <<>>, f3 |-> <<>>]
    /\ before = heap
    /\ pc = <<>>
    /\ next_i = 1
    /\ crit = 0
    /\ rk = <<>>
    /\ reduced = <<>>
    /\ log = <<>>
    /\ asserts = FALSE
    /\ ncalls = 0

\* ------------------------------------------------------------------------
\* The process entry points and the parallel region
\* ------------------------------------------------------------------------

\* Entry of process(...): the coord tag check and assignment, the field sizes,
\* then the parallel region begins with nthreads threads.
Enter(kind, f1, f2, f3, nthreads) ==
    /\ phase = "idle"
    /\ coords[1] = -1 \/ coords[1] = Flat
    /\ Len(f1) > 0
    /\ kind = "auto" \/ Len(f2) > 0
    /\ kind # "cross111" \/ Len(f3) > 0
    /\ coords' = [coords EXCEPT ![1] = Flat]
    /\ phase' = "running"
    /\ call' = [kind |-> kind, f1 |-> f1, f2 |-> f2, f3 |-> f3]
    /\ before' = heap
    /\ pc' = [w \in 1..nthreads |-> "start"]
    /\ rk' = [w \in 1..nthreads |-> 1]
    /\ reduced' = [w \in 1..nthreads |-> 0]
    /\ next_i' = 1
    /\ crit' = 0
    /\ log' = <<>>
    /\ ncalls' = ncalls + 1
    /\ UNCHANGED <<par, heap, asserts>>

ProcessAuto ==
    \E field \in AutoFields, n \in 1..MaxWorkers :
        Enter("auto", AsField(field, 1), <<>>, <<>>, n)

ProcessCross12 ==
    \E ff \in Cross12Fields, n \in 1..MaxWorkers :
        Enter("cross12", AsField(ff[1], 1), AsField(ff[2], 2), <<>>, n)

ProcessCross ==
    \E ff \in Cross111Fields, n \in 1..MaxWorkers :
        Enter("cross111", AsField(ff[1], 1), AsField(ff[2], 2), AsField(ff[3], 3), n)

\* The binding without OpenMP: every thread works on the masters themselves.
WorkerRefsShared(kind, w) == [k \in 1..NAcc(kind) |-> <<0, k>>]

\* The accumulators thread w works on (bc3; bc122, bc212, bc221; bc123 .. bc321):
\* with OpenMP its own duplicates.
WorkerRefs(kind, w) == [k \in 1..NAcc(kind) |-> <<w, k>>]

\* std::shared_ptr<BaseCorr3> bcp = duplicate(), for each accumulator of the call.
Duplicate(w) ==
    /\ phase = "running"
    /\ pc[w] = "start"
    /\ heap' = [r \in DOMAIN heap \cup {<<w, k>> : k \in 1..NAcc(call.kind)} |->
                   IF r \in DOMAIN heap
                   THEN heap[r]
                   ELSE duplicate(par, heap[<<0, r[2]>>])]
    /\ pc' = [pc EXCEPT ![w] = "loop"]
    /\ UNCHANGED <<par, coords, phase, call, before, next_i, crit, rk, reduced, log, asserts, ncalls>>

\* The events of iteration i of the call's outer loop, on the accumulators bc.
Body(P, c, bc, i) ==
    CASE c.kind = "auto" -> AutoBody(P, bc[1], c.f1, i)
      [] c.kind = "cross12" -> Cross12Body(P, bc[1], bc[2], bc[3], c.f1, c.f2, i)
      [] OTHER -> Cross111Body(P, bc, c.f1, c.f2, c.f3, i)

\* No critical section: a thread never waits.
CriticalAbsent == TRUE

\* The unnamed critical section can be entered.
CriticalFree == crit = 0

\* The dynamic schedule hands iteration i to one thread.
Claim(i) == i + 1

\* One iteration of the omp for loop: the thread takes the next iteration,
\* passes the critical section of the progress dots, and runs the body.
Iterate(w) ==
    /\ phase = "running"
    /\ pc[w] = "loop"
    /\ next_i <= N1
    /\ CriticalFree
    /\ \E evs \in { Body(par, call, WorkerRefs(call.kind, w), next_i) } :
           /\ heap' = Run(heap, evs)
           /\ log' = [i \in DOMAIN log \cup {next_i} |->
                        IF i = next_i THEN [w |-> w, evs |-> evs] ELSE log[i]]
    /\ next_i' = Claim(next_i)
    /\ UNCHANGED <<par, coords, phase, call, before, pc, crit, rk, reduced, asserts, ncalls>>

\* The implicit barrier at the end of the omp for loop.
AtBarrier == next_i > N1 /\ \A v \in Threads : pc[v] # "start"

\* #pragma omp critical { addData(...); ... }: entry.
EnterReduce(w) ==
    /\ phase = "running"
    /\ pc[w] = "loop"
    /\ AtBarrier
    /\ CriticalFree
    /\ crit' = w
    /\ pc' = [pc EXCEPT ![w] = "reduce"]
    /\ rk' = [rk EXCEPT ![w] = 1]
    /\ UNCHANGED <<par, heap, coords, phase, call, before, next_i, reduced, log, asserts, ncalls>>

\* One addData of the reduction block: master k += duplicate k.
AddData(w) ==
    /\ phase = "running"
    /\ pc[w] = "reduce"
    /\ rk[w] <= NAcc(call.kind)
    /\ heap' = [heap EXCEPT ![<<0, rk[w]>>] = addData(par, @, heap[<<w, rk[w]>>])]
    /\ rk' = [rk EXCEPT ![w] = @ + 1]
    /\ UNCHANGED <<par, coords, phase, call, before, pc, next_i, crit, reduced, log, asserts, ncalls>>

\* The end of the reduction block with the critical section never left.
LeaveReduceHolding(w) ==
    /\ phase = "running"
    /\ pc[w] = "reduce"
    /\ rk[w] > NAcc(call.kind)
    /\ crit' = crit
    /\ pc' = [pc EXCEPT ![w] = "done"]
    /\ reduced' = [reduced EXCEPT ![w] = @ + 1]
    /\ heap' = [r \in { q \in DOMAIN heap : q[1] # w } |-> heap[r]]
    /\ UNCHANGED <<par, coords, phase, call, before, next_i, rk, log, asserts, ncalls>>

\* The end of the reduction block and of the thread's part of the region:
\* the critical section is left and the duplicates are released.
LeaveReduce(w) ==
    /\ phase = "running"
    /\ pc[w] = "reduce"
    /\ rk[w] > NAcc(call.kind)
    /\ crit' = 0
    /\ pc' = [pc EXCEPT ![w] = "done"]
    /\ reduced' = [reduced EXCEPT ![w] = @ + 1]
    /\ heap' = [r \in { q \in DOMAIN heap : q[1] # w } |-> heap[r]]
    /\ UNCHANGED <<par, coords, phase, call, before, next_i, rk, log, asserts, ncalls>>

\* The end of the parallel region: process returns.
Return ==
    /\ phase = "running"
    /\ \A w \in Threads : pc[w] = "done"
    /\ phase' = "returned"
    /\ UNCHANGED <<par, heap, coords, call, before, pc, next_i, crit, rk, reduced, log, asserts, ncalls>>

Next ==
    \/ ProcessAuto
    \/ ProcessCross12
    \/ ProcessCross
    \/ \E w \in Threads : Duplicate(w)
    \/ \E w \in Threads : Iterate(w)
    \/ \E w \in Threads : EnterReduce(w)
    \/ \E w \in Threads : AddData(w)
    \/ \E w \in Threads : LeaveReduce(w)
    \/ Return

Spec == Init /\ [][Next]_vars

\* An iteration of the omp for loop is taken: what Iterate does to next_i.
TakeIteration ==
    /\ phase = "running"
    /\ next_i <= N1
    /\ \E w \in Threads : pc[w] = "loop"
    /\ CriticalFree
    /\ next_i' = Claim(next_i)

\* The threads of the region keep running: while iterations remain and a
\* thread is at the loop one is taken, a thread that can take a step outside
\* the loop takes one, a free critical section is granted, and the master
\* returns once the region has ended.
Fairness ==
    /\ WF_next_i(TakeIteration)
    /\ \A w \in 1..MaxWorkers :
         WF_vars(/\ w \in Threads
                 /\ \/ Duplicate(w) \/ EnterReduce(w)
                    \/ AddData(w) \/ LeaveReduce(w))
    /\ WF_vars(Return)

\* A call on accumulators with the tolerances of ParTol, by one thread or more.
InitFair == Init /\ par = ParTol

\* The parallel region entered from each entry point, on one field each.
NextFair ==
    \/ \E n \in 1..MaxWorkers : Enter("auto", AsField(FieldPair, 1), <<>>, <<>>, n)
    \/ \E n \in 1..MaxWorkers :
          Enter("cross12", AsField(<<cellPQ>>, 1), AsField(<<cellXY>>, 2), <<>>, n)
    \/ \E n \in 1..MaxWorkers :
          Enter("cross111", AsField(<<ptA, ptB>>, 1), AsField(<<cellCD>>, 2),
                AsField(<<ptE>>, 3), n)
    \/ \E w \in Threads : Duplicate(w)
    \/ \E w \in Threads : Iterate(w)
    \/ \E w \in Threads : EnterReduce(w)
    \/ \E w \in Threads : AddData(w)
    \/ \E w \in Threads : LeaveReduce(w)
    \/ Return

SpecFair == InitFair /\ [][NextFair]_vars /\ Fairness

\* ------------------------------------------------------------------------
\* The build without OpenMP: calls in sequence on the same accumulators
\* ------------------------------------------------------------------------
\* Without _OPENMP the loop runs on the masters themselves (bc3 = *this), so a
\* process call is one step.  The accumulators are reused from call to call,
\* cleared by clear() and added to one another by operator+=.

\* The coordinate kind ThreeD; the fields of that kind here lie in the plane z = 0.
ThreeD == 3

\* Scenario S1: minsep 0.5, maxsep 2, three log bins (ratio 4^(1/3)), u and v
\* in [0, 1) with five bins each, b = bu = bv = 0.1.
ParS1 ==
    BaseCorr3(R(1) \div 2, R(2), 3, (158 * R(1)) \div 100, R(1) \div 10, 0, R(1), 5, R(1) \div 5, R(1) \div 10, 0, R(1), 5, R(1) \div 5, R(1) \div 10)

\* ParExact with a bin size too small for the range: two bins of ratio 2 do
\* not reach maxsep = 16 (the constructor takes binsize as given).
ParLoose ==
    BaseCorr3(R(1), R(16), 2, R(2), 0, 0, R(1), 2, R(1) \div 2, 0, 0, R(1), 2, R(1) \div 2, 0)

\* ParExact with |v| restricted to [0.8, 1), in two bins.
ParMinV ==
    BaseCorr3(R(1), R(16), 2, R(4), 0, 0, R(1), 2, R(1) \div 2, 0, (8 * R(1)) \div 10, R(1), 2, R(1) \div 10, 0)

SeqParamSets == {ParExact, ParTol, ParS1, ParLoose, ParMinV}

\* A point at a position given in fixed point.
LeafAt(id, px, py, w, n) == [Leaf(id, 0, 0, w, n) EXCEPT !.pos = <<px, py>>]

\* Scenario S1: (0,0), (1,0), (0.5, sqrt(3)/2); the three computed sides are equal.
FieldS1 ==
    << Leaf("K", 0, 0, 1, 1), Leaf("L", 1, 0, 1, 1),
       LeafAt("M", R(1) \div 2, (87 * R(1)) \div 100, 1, 1) >>

\* The apex a little higher: the two computed sides at the apex exceed the base.
FieldS1High ==
    << Leaf("K", 0, 0, 1, 1), Leaf("L", 1, 0, 1, 1),
       LeafAt("Mhi", R(1) \div 2, (90 * R(1)) \div 100, 1, 1) >>

\* Scenario S2: four collinear points at x = 0, 1, 2, 3.
FieldS2 ==
    << Leaf("G0", 0, 0, 1, 1), Leaf("G1", 1, 0, 1, 1),
       Leaf("G2", 2, 0, 1, 1), Leaf("G3", 3, 0, 1, 1) >>

\* A point of weight 0 beside the isosceles triangle.
FieldZero == <<ptT, ptU, ptV, Leaf("Z", 3, 3, 0, 1)>>

\* A triangle with d2 = 9.
FieldFar == << Leaf("F1", 0, 0, 1, 1), Leaf("F2", 9, 0, 1, 1), Leaf("F3", 3, 8, 1, 1) >>

\* Two points and a wide cell: the triangle of the two points with the
\* cell's point (2, 2) has sides 4.47, 2.83, 2, so u = 0.71 and v = 0.82.
FieldWide ==
    << Leaf("W1", 0, 0, 1, 1), Leaf("W2", 4, 2, 1, 1),
       Node("W34", Leaf("W3", -2, 7, 1, 1), Leaf("W4", 2, 2, 1, 1)) >>

\* A process call: its kind, its fields and their coordinate kind.
CallOf(kind, field1, field2, field3, coord) ==
    [kind |-> kind, f1 |-> AsField(field1, 1), f2 |-> AsField(field2, 2),
     f3 |-> AsField(field3, 3), coord |-> coord]

SeqCalls ==
    { CallOf("auto", f, <<>>, <<>>, Flat) :
        f \in {FieldIso, FieldNear, FieldPair, FieldS1, FieldS1High, FieldS2,
               FieldZero, FieldFar, FieldWide} }
    \cup { CallOf("auto", FieldIso, <<>>, <<>>, ThreeD),
           CallOf("cross12", <<ptV>>, <<ptT, ptU>>, <<>>, Flat),
           CallOf("cross12", <<cellPQ>>, <<cellXY>>, <<>>, ThreeD),
           CallOf("cross111", <<cellPQ>>, <<ptX>>, <<ptY>>, Flat),
           CallOf("auto", <<>>, <<>>, <<>>, Flat),
           CallOf("cross12", <<ptV>>, <<>>, <<>>, ThreeD) }

\* The largest number of process calls and additions in a behaviour.
MaxCalls == 2

\* The accumulators clear() and operator+= are called on.
SeqTargets == {1, 2}

\* The events carried out: with Assert active the first failed Assert throws.
Executed(evs, active) ==
    LET failed == { n \in DOMAIN evs : evs[n].kind = "assert" }
    IN  IF ~active \/ failed = {} THEN evs
        ELSE SubSeq(evs, 1, (CHOOSE n \in failed : \A m \in failed : n <= m) - 1)

InitSeq ==
    /\ par \in SeqParamSets
    /\ heap = [r \in Masters |-> clear(par)]
    /\ coords = [k \in 1..6 |-> -1]
    /\ phase = "idle"
    /\ call = [kind |-> "none", f1 |-> <<>>, f2 |-> <<>>, f3 |-> <<>>]
    /\ before = heap
    /\ pc = <<>>
    /\ next_i = 1
    /\ crit = 0
    /\ rk = <<>>
    /\ reduced = <<>>
    /\ log = <<>>
    /\ asserts \in BOOLEAN
    /\ ncalls = 0

\* One of the fields of the call has no top-level cell (n1, n2 or n3 is 0).
EmptyField(c) ==
    \/ Len(c.f1) = 0
    \/ (c.kind # "auto" /\ Len(c.f2) = 0)
    \/ (c.kind = "cross111" /\ Len(c.f3) = 0)

\* process(...) without OpenMP: the coord tag check, the assignment of the
\* tag, the checks of the field sizes, then the loop on the masters.
SeqProcess(c) ==
    /\ phase # "running"
    /\ ncalls < MaxCalls
    /\ ncalls' = ncalls + 1
    /\ call' = c
    /\ before' = heap
    /\ IF asserts /\ ~(coords[1] = -1 \/ coords[1] = c.coord)
       THEN /\ phase' = "rejected"
            /\ log' = <<>>
            /\ UNCHANGED <<heap, coords>>
       ELSE IF asserts /\ EmptyField(c)
       THEN /\ phase' = "rejected"
            /\ log' = <<>>
            /\ coords' = [coords EXCEPT ![1] = c.coord]
            /\ UNCHANGED heap
       ELSE \E all \in { Flatten([i \in 1..Len(c.f1) |->
                           Body(par, c, [k \in 1..NAcc(c.kind) |-> <<0, k>>], i)]) } :
              \E done \in { Executed(all, asserts) } :
                /\ coords' = [coords EXCEPT ![1] = c.coord]
                /\ heap' = Run(heap, done)
                /\ log' = << [w |-> 0, evs |-> done, all |-> all] >>
                /\ phase' = IF Len(done) < Len(all) THEN "aborted" ELSE "returned"
    /\ UNCHANGED <<par, pc, next_i, crit, rk, reduced, asserts>>

\* clear() on accumulator k.
SeqClear(k) ==
    /\ phase # "running"
    /\ heap' = [heap EXCEPT ![<<0, k>>] = clear(par)]
    /\ coords' = [coords EXCEPT ![k] = -1]
    /\ phase' = "idle"
    /\ UNCHANGED <<par, call, before, pc, next_i, crit, rk, reduced, log, asserts, ncalls>>

\* Accumulator k += accumulator j.
SeqPlusEq(k, j) ==
    /\ phase # "running"
    /\ ncalls < MaxCalls
    /\ ncalls' = ncalls + 1
    /\ heap' = [heap EXCEPT ![<<0, k>>] = PlusEq(par, @, heap[<<0, j>>])]
    /\ phase' = "idle"
    /\ UNCHANGED <<par, coords, call, before, pc, next_i, crit, rk, reduced, log, asserts>>

NextSeq ==
    \/ \E c \in SeqCalls : SeqProcess(c)
    \/ \E k \in SeqTargets : SeqClear(k)
    \/ \E k \in SeqTargets, j \in SeqTargets : SeqPlusEq(k, j)

SpecSeq == InitSeq /\ [][NextSeq]_vars

\* ------------------------------------------------------------------------
\* Quantities the properties are stated in
\* ------------------------------------------------------------------------

RECURSIVE Leaves(_)
\* The leaf cells (points) below a cell.
Leaves(c) ==
    IF Len(c.kids) = 0 THEN {c} ELSE Leaves(c.kids[1]) \cup Leaves(c.kids[2])

\* The points of a field.
Points(field) == UNION { Leaves(field[i]) : i \in DOMAIN field }

\* The number of points of a field.
NPoints(field) == Cardinality(Points(field))

\* The three squared sides of the triangle of positions qa, qb, qc, largest first.
SortedSidesSq(qa, qb, qc) ==
    LET a  == DistSq(qb, qc, 0, 0)
        b  == DistSq(qa, qc, 0, 0)
        c  == DistSq(qa, qb, 0, 0)
        hi == Max(a, Max(b, c))
        lo == -Max(-a, Max(-b, -c))
    IN  <<hi, a + b + c - hi - lo, lo>>

\* d2, u and |v| of sides d1 >= d2 >= d3 lie in the ranges of P.
WithinRange(P, d1, d2, d3) ==
    /\ d3 > 0
    /\ P.minsep <= d2 /\ d2 < P.maxsep
    /\ P.minu <= Div(d3, d2) /\ Div(d3, d2) < P.maxu
    /\ P.minv <= Div(d1 - d2, d3) /\ Div(d1 - d2, d3) < P.maxv

\* The triangle of three positions is in the ranges of P.
TriangleInRange(P, qa, qb, qc) ==
    LET ss == SortedSidesSq(qa, qb, qc)
    IN  WithinRange(P, sqrt(ss[1]), sqrt(ss[2]), sqrt(ss[3]))

\* The point triples an auto call is to count.
AutoTriples(field) ==
    { t \in SUBSET Points(field) : Cardinality(t) = 3 }

\* Every cell of the fields is a unit-weight point or made of such points.
UnitWeights(fields) ==
    \A k \in DOMAIN fields : \A c \in Points(fields[k]) : c.n = 1 /\ c.w = R(1)

\* Every triangle with one point from each of the sets A, B, C is in range.
AllInRange(P, A, B, C) ==
    \A a \in A, b \in B, c \in C :
        (a # b /\ a # c /\ b # c) => TriangleInRange(P, a.pos, b.pos, c.pos)

\* Sum over all bins of the array arr.
BinSum(P, arr) == SeqSum([i \in 1..P.ntot |-> arr[i - 1]])

\* Triangles counted by the call so far in master k: ntri now minus ntri before.
Counted(k) == BinSum(par, heap[<<0, k>>].ntri) - BinSum(par, before[<<0, k>>].ntri)

\* The commit events of the call so far, each with the thread that made it.
LoggedCommits ==
    UNION { { [w |-> log[i].w, ev |-> log[i].evs[n]] :
                n \in { m \in DOMAIN log[i].evs : log[i].evs[m].kind = "commit" } } :
            i \in DOMAIN log }

\* The centre-to-centre sides of a commit's cells: d1 opposite c1, and so on.
SideSq1(ev) == DistSq(ev.c2.pos, ev.c3.pos, 0, 0)
SideSq2(ev) == DistSq(ev.c1.pos, ev.c3.pos, 0, 0)
SideSq3(ev) == DistSq(ev.c1.pos, ev.c2.pos, 0, 0)

\* The events of the iterations run by the threads in S, in loop order,
\* as writes to the masters.
EventsOf(S) ==
    Flatten([i \in DOMAIN log |->
        IF log[i].w \in S
        THEN [n \in DOMAIN log[i].evs |-> [log[i].evs[n] EXCEPT !.acc = <<0, @[2]>>]]
        ELSE <<>>])

\* The masters as process without OpenMP leaves them: every iteration of the
\* outer loop in order on the masters themselves.
Sequential(P, c, h) ==
    CHOOSE r \in { Run(h, evs) :
                   evs \in { Flatten([i \in 1..Len(c.f1) |->
                               Body(P, c, [k \in 1..NAcc(c.kind) |-> <<0, k>>], i)]) } } :
        TRUE

\* The accumulators of the call.
Used == 1..NAcc(call.kind)

\* ------------------------------------------------------------------------
\* Count conservation
\* ------------------------------------------------------------------------

\* The call is an auto call on unit-weight points with every triangle in range.
AutoAllInRange ==
    /\ call.kind = "auto"
    /\ UnitWeights(<<call.f1>>)
    /\ AllInRange(par, Points(call.f1), Points(call.f1), Points(call.f1))

\* C1: when process(field) has returned for a field of N unit-weight points
\* (any tree shape, any number of top-level cells) all of whose triangles are
\* in range, the sum over all bins of ntri has grown by N(N-1)(N-2)/6: every
\* unordered triple of distinct points is counted exactly once.
C1_AutoCountConservation ==
    (phase = "returned" /\ AutoAllInRange)
        => Counted(1) = (NPoints(call.f1) * (NPoints(call.f1) - 1)
                            * (NPoints(call.f1) - 2)) \div 6

\* An auto call has returned on five points in three top-level cells, two of
\* them internal cells, with every triangle in range and tolerance b > 0.
C1_Witness ==
    /\ phase = "returned" /\ AutoAllInRange
    /\ NPoints(call.f1) = 5 /\ Len(call.f1) = 3
    /\ Counted(1) = 10

\* An auto call has returned, with every triangle in range, that committed a
\* whole internal cell as one vertex (tolerance b > 0): one commit, two triangles.
C1_Aggregated ==
    /\ phase = "returned" /\ AutoAllInRange
    /\ par.b > 0
    /\ \E e \in LoggedCommits : e.ev.c1.n * e.ev.c2.n * e.ev.c3.n > 1

\* The call is a cross call on unit-weight points with every admissible
\* triangle in range.
CrossAllInRange ==
    /\ call.kind \in {"cross12", "cross111"}
    /\ UnitWeights(<<call.f1, call.f2, call.f3>>)
    /\ AllInRange(par, Points(call.f1), Points(call.f2),
                  IF call.kind = "cross12" THEN Points(call.f2) ELSE Points(call.f3))

\* The number of admissible point triples of a cross call.
CrossTriples ==
    IF call.kind = "cross12"
    THEN (NPoints(call.f1) * NPoints(call.f2) * (NPoints(call.f2) - 1)) \div 2
    ELSE NPoints(call.f1) * NPoints(call.f2) * NPoints(call.f3)

\* C2: when a cross call has returned on unit-weight points all of whose
\* admissible triangles are in range, the sum of ntri over all bins of all the
\* call's accumulators has grown by N1*N2*(N2-1)/2 (cross-12, three
\* accumulators) or by N1*N2*N3 (cross-111, six accumulators).
C2_CrossCountConservation ==
    (phase = "returned" /\ CrossAllInRange)
        => SeqSum([k \in Used |-> Counted(k)]) = CrossTriples

\* A cross-12 call has returned that counted six triangles over more than one
\* accumulator, from fields with an internal cell.
C2_Witness ==
    /\ phase = "returned" /\ CrossAllInRange
    /\ call.kind = "cross12"
    /\ CrossTriples = 6
    /\ \E i \in DOMAIN call.f2 : Len(call.f2[i].kids) = 2
    /\ Cardinality({ k \in Used : Counted(k) > 0 }) > 1

\* ------------------------------------------------------------------------
\* Range of the commits
\* ------------------------------------------------------------------------

\* C3: every commit made by process111Sorted has sides d1 >= d2 >= d3 that are
\* the centre-to-centre distances of its cells, with d2 in [minsep, maxsep),
\* u = d3/d2 in [minu, maxu) and |v| = (d1-d2)/d3 in [minv, maxv); a triangle
\* with d2, u or |v| equal to the upper bound is not committed.
C3_NoCommitOutOfRange ==
    \A e \in LoggedCommits :
        LET ev == e.ev
            d1 == sqrt(SideSq1(ev))
            d2 == sqrt(SideSq2(ev))
            d3 == sqrt(SideSq3(ev))
        IN  /\ SideSq1(ev) >= SideSq2(ev) /\ SideSq2(ev) >= SideSq3(ev)
            /\ ev.d1 = d1 /\ ev.d2 = d2 /\ ev.d3 = d3
            /\ ev.u = Div(d3, d2)
            /\ (IF ev.v < 0 THEN -ev.v ELSE ev.v) = Div(d1 - d2, d3)
            /\ WithinRange(par, d1, d2, d3)

\* An auto call has returned with commits in its log, on a field that has a
\* triangle with |v| exactly maxv, which was not committed.
C3_Witness ==
    /\ phase = "returned" /\ call.kind = "auto"
    /\ LoggedCommits # {}
    /\ \E t \in AutoTriples(call.f1) :
         \E a \in t, b \in t, c \in t :
            LET ss == SortedSidesSq(a.pos, b.pos, c.pos)
            IN  /\ a # b /\ b # c /\ a # c
                /\ sqrt(ss[3]) > 0
                /\ Div(sqrt(ss[1]) - sqrt(ss[2]), sqrt(ss[3])) = par.maxv
                /\ \A e \in LoggedCommits :
                      {e.ev.c1.id, e.ev.c2.id, e.ev.c3.id} # {a.id, b.id, c.id}

\* ------------------------------------------------------------------------
\* Routing of the commits to the accumulators
\* ------------------------------------------------------------------------

\* The cells of a commit are in sorted slots: c_k is opposite the side d_k and
\* d1 >= d2 >= d3.
SortedSlots(ev) == SideSq1(ev) >= SideSq2(ev) /\ SideSq2(ev) >= SideSq3(ev)

\* The place, among this and the arguments of the cross-111 call (bc123, bc132,
\* bc213, bc231, bc312, bc321), of the accumulator named by the origins a, b, c.
Named(a, b, c) ==
    CASE <<a, b, c>> = <<1, 2, 3>> -> 1
      [] <<a, b, c>> = <<1, 3, 2>> -> 2
      [] <<a, b, c>> = <<2, 1, 3>> -> 3
      [] <<a, b, c>> = <<2, 3, 1>> -> 4
      [] <<a, b, c>> = <<3, 1, 2>> -> 5
      [] <<a, b, c>> = <<3, 2, 1>> -> 6

\* C4: in a cross-111 call every commit, at whatever depth of splitting and
\* re-sorting it is made, has one cell of each field in sorted slots and is
\* written to the accumulator whose name lists the field origins of the cells
\* in slots 1, 2, 3, and to no other.
C4_Cross111Routing ==
    call.kind = "cross111" =>
        \A e \in LoggedCommits :
            /\ SortedSlots(e.ev)
            /\ {e.ev.c1.f, e.ev.c2.f, e.ev.c3.f} = {1, 2, 3}
            /\ e.ev.acc[2] = Named(e.ev.c1.f, e.ev.c2.f, e.ev.c3.f)

\* A cross-111 call has committed, below an internal top-level cell, a triangle
\* with the F2 cell opposite d1, the F3 cell opposite d2 and the F1 cell
\* opposite d3, into the 231 accumulator.
C4_Witness ==
    /\ call.kind = "cross111"
    /\ \E i \in DOMAIN call.f1 : Len(call.f1[i].kids) = 2
    /\ \E e \in LoggedCommits :
         /\ <<e.ev.c1.f, e.ev.c2.f, e.ev.c3.f>> = <<2, 3, 1>>
         /\ e.ev.acc[2] = 4
         /\ e.ev.c3.id \notin { call.f1[i].id : i \in DOMAIN call.f1 }

\* C5: in a cross-12 call every commit, whether reached from the driver's
\* process111 over j < k or from process12's process111(c1, left, right), has
\* exactly one cell of F1 and is written to bc122 iff that cell is in sorted
\* slot 1, to bc212 iff it is in slot 2, and to bc221 iff it is in slot 3.
C5_Cross12Routing ==
    call.kind = "cross12" =>
        \A e \in LoggedCommits :
            /\ SortedSlots(e.ev)
            /\ \/ <<e.ev.c1.f, e.ev.c2.f, e.ev.c3.f>> = <<1, 2, 2>> /\ e.ev.acc[2] = 1
               \/ <<e.ev.c1.f, e.ev.c2.f, e.ev.c3.f>> = <<2, 1, 2>> /\ e.ev.acc[2] = 2
               \/ <<e.ev.c1.f, e.ev.c2.f, e.ev.c3.f>> = <<2, 2, 1>> /\ e.ev.acc[2] = 3

\* A cross-12 call has returned with commits in each of bc122, bc212 and
\* bc221, one of them on the two children of an internal cell of F2.
C5_Witness ==
    /\ call.kind = "cross12" /\ phase = "returned"
    /\ { e.ev.acc[2] : e \in LoggedCommits } = {1, 2, 3}
    /\ \E e \in LoggedCommits, j \in DOMAIN call.f2 :
         /\ Len(call.f2[j].kids) = 2
         /\ { call.f2[j].kids[1].id, call.f2[j].kids[2].id }
               \subseteq { e.ev.c1.id, e.ev.c2.id, e.ev.c3.id }

\* ------------------------------------------------------------------------
\* The parallel region
\* ------------------------------------------------------------------------

\* C6: when process has returned, whatever the number of threads, the
\* assignment of iterations to threads and the interleaving, every master
\* equals its contents before the call plus what the loop without OpenMP adds
\* to it: each iteration's contributions are in the master exactly once.
C6_ParallelEqualsSequential ==
    phase = "returned" =>
        \A seq \in { Sequential(par, call, before) } :
            \A k \in Used : heap[<<0, k>>] = seq[<<0, k>>]

\* A call has returned whose masters held data before it and whose commits
\* were made by two different threads.
C6_Witness ==
    /\ phase = "returned"
    /\ BinSum(par, before[<<0, 1>>].ntri) > 0
    /\ Cardinality({ e.w : e \in LoggedCommits }) >= 2

\* What the iterations run by thread w have written, as arrays of a zeroed
\* accumulator k.
Contribution(w, k) ==
    Run([r \in Masters |-> clear(par)], EventsOf({w}))[<<0, k>>]

\* The state part of C7.
SharedNothing ==
    /\ \A e \in LoggedCommits :
          e.w \in Threads /\ e.ev.acc[1] = e.w /\ e.ev.acc[2] \in Used
    /\ \A w \in Threads : \A k \in Used :
          pc[w] \in {"loop", "reduce"} => heap[<<w, k>>] = Contribution(w, k)
    /\ (phase = "running" /\ \A w \in Threads : pc[w] \in {"start", "loop"})
          => \A k \in 1..6 : heap[<<0, k>>] = before[<<0, k>>]

\* C7: in the parallel region every write of a thread's process3, process12
\* and process111 calls goes to that thread's own duplicates, which start
\* zeroed (1 for auto, 3 for cross-12, 6 for cross-111): a duplicate holds
\* exactly what its own thread's iterations committed, the masters are as they
\* were before the call until a reduction block begins, and the fields of the
\* call are never changed.
C7_SharedNothing ==
    /\ []SharedNothing
    /\ [][phase = "running" => call' = call]_vars

\* Two threads are in the loop, each with commits in its own duplicates, in a
\* call whose masters held data before it, and no reduction has begun.
C7_Witness ==
    /\ phase = "running"
    /\ \A w \in Threads : pc[w] = "loop"
    /\ Cardinality({ e.w : e \in LoggedCommits }) >= 2
    /\ BinSum(par, before[<<0, 1>>].ntri) > 0
    /\ call.kind # "auto"

\* The threads whose duplicate k has been added to master k.
Added(k) == { w \in Threads : pc[w] = "done" \/ (pc[w] = "reduce" /\ rk[w] > k) }

\* C8: at most one thread at a time is in the reduction block, and it holds
\* the critical section; the masters hold, beside their contents before the
\* call, the contributions of the threads that have finished their block and,
\* of the thread inside it, those of the duplicates it has added so far, and
\* nothing else; no thread reduces twice, and when process returns every
\* thread has reduced exactly once.
C8_ReductionExclusive ==
    /\ Cardinality({ w \in Threads : pc[w] = "reduce" }) <= 1
    /\ \A w \in Threads : pc[w] = "reduce" <=> crit = w
    /\ \A k \in Used :
          heap[<<0, k>>] = Run(before, EventsOf(Added(k)))[<<0, k>>]
    /\ \A w \in Threads : reduced[w] = (IF pc[w] = "done" THEN 1 ELSE 0)
    /\ phase = "returned" => \A w \in Threads : reduced[w] = 1

\* A thread is inside the reduction block of a cross call, some of its
\* duplicates added and some not, while another thread with commits of its own
\* waits to enter.
C8_Witness ==
    /\ \E w \in Threads :
         /\ pc[w] = "reduce" /\ rk[w] > 1 /\ rk[w] <= NAcc(call.kind)
         /\ \E v \in Threads \ {w} :
               /\ pc[v] = "loop"
               /\ \E e \in LoggedCommits : e.w = v
    /\ \E e \in LoggedCommits : e.w = crit

\* ------------------------------------------------------------------------
\* The sign of v
\* ------------------------------------------------------------------------

\* The sorted cells of a commit are counter-clockwise.
CommitCCW(ev) == CCW(ev.c1.pos, ev.c2.pos, ev.c3.pos)

\* The v bin of a commit, in 0 .. 2 nvbins - 1.
CommitKv(ev) == ev.index % par.nvbins2

\* C9 as stated: for every commit, the v passed to it is < 0 if and only if
\* the sorted cells are not counter-clockwise, triangles with d1 = d2 included.
C9_SignOfV_AsStated ==
    \A e \in LoggedCommits : (e.ev.v < 0) <=> ~CommitCCW(e.ev)

\* C9, amended: for every commit, v <= 0 and the v bin is in the lower half
\* when the sorted cells are not counter-clockwise, v >= 0 and the v bin is in
\* the upper half when they are; v < 0 if and only if they are not
\* counter-clockwise and (d1-d2)/d3 is not 0; and what meanv accumulates in a
\* bin of the lower half is <= 0, in a bin of the upper half >= 0.
C9_SignOfV ==
    /\ \A e \in LoggedCommits :
          LET ev  == e.ev
              mag == Div(sqrt(SideSq1(ev)) - sqrt(SideSq2(ev)), sqrt(SideSq3(ev)))
          IN  /\ ~CommitCCW(ev) => (ev.v = -mag /\ CommitKv(ev) < par.nvbins)
              /\ CommitCCW(ev) => (ev.v = mag /\ CommitKv(ev) >= par.nvbins)
              /\ (ev.v < 0) <=> (~CommitCCW(ev) /\ mag # 0)
    /\ \A r \in DOMAIN heap : \A i \in Bins(par) :
          IF i % par.nvbins2 < par.nvbins
          THEN heap[r].meanv[i] <= 0
          ELSE heap[r].meanv[i] >= 0

\* A triangle with d1 = d2 whose sorted cells are not counter-clockwise has
\* been committed: its v is 0, in the highest bin of the lower half.
C9_Witness ==
    \E e \in LoggedCommits :
        /\ SideSq1(e.ev) = SideSq2(e.ev)
        /\ ~CommitCCW(e.ev)
        /\ e.ev.v = 0
        /\ CommitKv(e.ev) = par.nvbins - 1

\* ------------------------------------------------------------------------
\* Order of the top-level cells
\* ------------------------------------------------------------------------

\* C10 as stated: when process(field) has returned, the accumulator holds in
\* every bin what process would have left for any other order of the
\* top-level cells of the field, tied side lengths included.
C10_PermutationSymmetry ==
    (phase = "returned" /\ call.kind = "auto") =>
        \A field \in Orders(call.f1) :
            \A seq \in { Sequential(par, [call EXCEPT !.f1 = field], before) } :
                heap[<<0, 1>>] = seq[<<0, 1>>]

\* ------------------------------------------------------------------------
\* Effect and frame of the commits
\* ------------------------------------------------------------------------

\* The events the last process call carried out (without OpenMP).
Done == IF log = <<>> THEN <<>> ELSE log[1].evs

\* The commits of the last call into bin i of master k, in order.
CommitsAt(k, i) ==
    SelectSeq(Done, LAMBDA e : e.kind = "commit" /\ e.acc = <<0, k>> /\ e.index = i)

\* w1 * w2 * w3 of a commit.
WWW(ev) == Mul(Mul(ev.c1.w, ev.c2.w), ev.c3.w)

\* What the commits cs add together to the entry of one array.
Gain(cs, arr) ==
    SeqSum([n \in DOMAIN cs |->
        CASE arr = "ntri"   -> cs[n].c1.n * cs[n].c2.n * cs[n].c3.n
          [] arr = "weight" -> WWW(cs[n])
          [] arr = "meand1" -> Mul(WWW(cs[n]), cs[n].d1)
          [] arr = "meand2" -> Mul(WWW(cs[n]), cs[n].d2)
          [] arr = "meand3" -> Mul(WWW(cs[n]), cs[n].d3)
          [] arr = "meanu"  -> Mul(WWW(cs[n]), cs[n].u)
          [] arr = "meanv"  -> Mul(WWW(cs[n]), cs[n].v)])

Arrays == {"ntri", "weight", "meand1", "meand2", "meand3", "meanu", "meanv"}

\* C11: when a process call has ended, every entry i of every array of every
\* accumulator has grown by exactly the sum, over the commits of the call
\* with index i into that accumulator, of n1*n2*n3 (ntri), w1*w2*w3 (weight),
\* www*d1, www*d2, www*d3, www*u, www*v (the mean sums); entries at other
\* indices, and accumulators that received no commit, are unchanged.
C11_CommitEffect ==
    phase \in {"returned", "aborted"} =>
        \A k \in 1..6 : \A i \in Bins(par) : \A cs \in { CommitsAt(k, i) } :
            \A arr \in Arrays :
                heap[<<0, k>>][arr][i] = before[<<0, k>>][arr][i] + Gain(cs, arr)

\* A call has committed an aggregated triangle (n1*n2*n3 > 1) into one bin
\* and left another bin, which held weight from an earlier call, as it was.
C11_Witness ==
    /\ phase = "returned"
    /\ \E i \in Bins(par) : \E cs \in { CommitsAt(1, i) } :
          /\ Len(cs) > 0
          /\ \E n \in DOMAIN cs : cs[n].c1.n * cs[n].c2.n * cs[n].c3.n > 1
          /\ heap[<<0, 1>>].weight[i] > before[<<0, 1>>].weight[i]
    /\ \E j \in Bins(par) :
          /\ CommitsAt(1, j) = <<>>
          /\ before[<<0, 1>>].weight[j] > 0
          /\ heap[<<0, 1>>].weight[j] = before[<<0, 1>>].weight[j]

\* ------------------------------------------------------------------------
\* The coord tag
\* ------------------------------------------------------------------------

\* A step that is a call of process.
ProcessStep == ncalls' = ncalls + 1 /\ phase' # "idle"

\* C12 as stated: a call of kind C on an accumulator whose tag is unset sets
\* the tag to C; a call of another kind with no clear() in between is
\* rejected before any array entry is modified (the tag stays as it was);
\* clear() resets the tag to unset.
C12_CoordTagProtocol ==
    [][ /\ (ProcessStep /\ coords[1] = -1) => coords'[1] = call'.coord
        /\ (ProcessStep /\ coords[1] # -1 /\ coords[1] # call'.coord) =>
               (phase' = "rejected" /\ heap' = heap /\ coords' = coords)
        /\ \A k \in SeqTargets : SeqClear(k) => coords'[k] = -1 ]_vars

\* ------------------------------------------------------------------------
\* The index of a commit
\* ------------------------------------------------------------------------

\* The events of the last call had no Assert thrown (log[1].all).
Attempted == IF log = <<>> THEN <<>> ELSE log[1].all

\* The triangles of the last call whose index fell outside [0, ntot).
OutOfRange == { n \in DOMAIN Attempted : Attempted[n].kind = "drop" }

\* A bin number lowered by one when it equals the number of bins.
Guarded(k, nb) == IF k >= nb THEN k - 1 ELSE k

\* kr, ku and the unsigned kv of a committed triangle, from its d2, u, v.
Kr(ev) == Guarded(LogBin(ev.d2, par.minsep, par.ebinsize), par.nbins)
Ku(ev) == Guarded((ev.u - par.minu) \div par.ubinsize, par.nubins)
Kv(ev) == Guarded(((IF ev.v < 0 THEN -ev.v ELSE ev.v) - par.minv) \div par.vbinsize, par.nvbins)

C14_WeightInvariant ==
    \A k \in 1..6 : \A i \in Bins(par) :
        /\ heap[<<0, k>>].weight[i] >= 0
        /\ heap[<<0, k>>].weight[i] = 0 =>
              \A arr \in Arrays : heap[<<0, k>>][arr][i] = 0

\* A field with a point of weight 0 has been processed and the accumulator
\* then added to itself: a bin holds the doubled count of the triangle of
\* the weighted points, and the bins of the triangles with the weightless
\* point are empty.
C14_Witness ==
    /\ phase = "idle"
    /\ ncalls = 2
    /\ \E n \in DOMAIN call.f1 : getW(call.f1[n]) = 0
    /\ \E i \in Bins(par) :
          /\ heap[<<0, 1>>].ntri[i] = 2
          /\ \A j \in Bins(par) \ {i} : heap[<<0, 1>>].weight[j] = 0

\* ------------------------------------------------------------------------
\* Scenarios
\* ------------------------------------------------------------------------

\* process(field) of the given (flat) field has returned under parameters P.
AutoReturned(P, field) ==
    /\ par = P
    /\ phase = "returned"
    /\ call = CallOf("auto", field, <<>>, <<>>, Flat)

\* The sum of ntri over the bins of master 1 has grown by d in the last call,
\* all of it in one bin.
NtriGrown(d) ==
    IF d = 0 THEN heap[<<0, 1>>].ntri = before[<<0, 1>>].ntri
    ELSE \E i \in Bins(par) :
            heap[<<0, 1>>].ntri = [before[<<0, 1>>].ntri EXCEPT ![i] = @ + d]

\* The commits of the last call.
DoneCommits == Commits(Done)

\* C15 as stated (scenario S1): the equilateral triangle of side 1 under the
\* parameters of S1 is committed exactly once, the sum of ntri grows by 1,
\* and the commit is in the bin containing d2 = 1, u = 1, v = 0.
C15_ScenarioS1_AsStated ==
    AutoReturned(ParS1, FieldS1) =>
        /\ Len(DoneCommits) = 1
        /\ NtriGrown(1)
        /\ \A n \in DOMAIN DoneCommits :
              /\ Kr(DoneCommits[n]) = LogBin(R(1), ParS1.minsep, ParS1.ebinsize)
              /\ Ku(DoneCommits[n]) = ParS1.nubins - 1
              /\ Kv(DoneCommits[n]) = 0

\* C15 (scenario S1): the three computed sides of the equilateral triangle
\* are equal, so u = d3/d2 = 1 = maxu; process111Sorted is entered once,
\* is not stopped, and the range check u >= maxu rejects the triangle:
\* nothing is committed and every array is as before the call.  With the
\* apex raised so that the computed d3 < d2, the triangle is committed
\* exactly once, in the bin of d2, the last u bin and a v bin next to v = 0.
C15_ScenarioS1 ==
    /\ AutoReturned(ParS1, FieldS1) =>
          /\ \E n \in DOMAIN Done :
                /\ Done[n].kind = "sorted" /\ ~Done[n].stop
                /\ Done[n].d1sq = Done[n].d2sq /\ Done[n].d2sq = Done[n].d3sq
          /\ DoneCommits = <<>>
          /\ NtriGrown(0)
          /\ heap = before
    /\ AutoReturned(ParS1, FieldS1High) =>
          /\ Len(DoneCommits) = 1
          /\ NtriGrown(1)
          /\ \A n \in DOMAIN DoneCommits :
                /\ Kr(DoneCommits[n]) = LogBin(DoneCommits[n].d2, ParS1.minsep, ParS1.ebinsize)
                /\ Ku(DoneCommits[n]) = ParS1.nubins - 1
                /\ Kv(DoneCommits[n]) = 0
                /\ DoneCommits[n].u < ParS1.maxu

\* Scenario S1 has run on fresh accumulators and returned.
C15_Witness ==
    /\ AutoReturned(ParS1, FieldS1)
    /\ ncalls = 1
    /\ \A i \in Bins(par) : before[<<0, 1>>].ntri[i] = 0
    /\ \E n \in DOMAIN Done : Done[n].kind = "sorted"

\* process(FieldS2) has returned, under any of the parameter sets.
S2Returned == phase = "returned" /\ call = CallOf("auto", FieldS2, <<>>, <<>>, Flat)

\* The entries of process111Sorted in the last call.
DoneSorted == SelectSeq(Done, LAMBDA e : e.kind = "sorted")

\* C16 as stated (scenario S2): the four triples of the collinear points at
\* x = 0, 1, 2, 3 are all committed, the sum of ntri grows by 4, and every
\* commit is in a v bin adjacent to +maxv or -maxv.
C16_ScenarioS2_AsStated ==
    S2Returned =>
        /\ Len(DoneCommits) = 4
        /\ Gain(DoneCommits, "ntri") = 4
        /\ \A n \in DOMAIN DoneCommits : Kv(DoneCommits[n]) = par.nvbins - 1

\* C16 (scenario S2): each of the four triples enters process111Sorted
\* once, with d1 = d2 + d3 exactly, that is v = (d1 - d2)/d3 = 1 = maxv;
\* the range check v >= maxv (for the two triples of neighbours also
\* u >= maxu) rejects every one of them: nothing is committed and every
\* array is as before the call.
C16_ScenarioS2 ==
    S2Returned =>
        /\ Len(DoneSorted) = 4
        /\ \A n \in DOMAIN DoneSorted :
              /\ sqrt(DoneSorted[n].d1sq) = sqrt(DoneSorted[n].d2sq) + sqrt(DoneSorted[n].d3sq)
              /\ Div(sqrt(DoneSorted[n].d1sq) - sqrt(DoneSorted[n].d2sq),
                     sqrt(DoneSorted[n].d3sq)) = par.maxv
        /\ DoneCommits = <<>>
        /\ heap = before

\* Scenario S2 has run on fresh accumulators and returned, and none of the
\* four visits of process111Sorted was stopped by stop111.
C16_Witness ==
    /\ S2Returned
    /\ ncalls = 1
    /\ Len(DoneSorted) = 4
    /\ \A n \in DOMAIN DoneSorted : ~DoneSorted[n].stop

\* ------------------------------------------------------------------------
\* Pruning
\* ------------------------------------------------------------------------

\* C17 as stated: whenever stop111 returns true for cells c1, c2, c3, no
\* choice of one point from each cell (each within s_i of its centre) forms
\* a triangle whose d2, u, v are all in range.
C17_Stop111Sound ==
    \A n \in DOMAIN DoneSorted :
        DoneSorted[n].stop =>
            \A qa \in DoneSorted[n].pts[1], qb \in DoneSorted[n].pts[2],
               qc \in DoneSorted[n].pts[3] :
                (qa # qb /\ qa # qc /\ qb # qc) => ~TriangleInRange(par, qa, qb, qc)

\* ------------------------------------------------------------------------
\* The spin-2 commit (DirectHelper<GData,GData,GData>::ProcessZeta)
\* ------------------------------------------------------------------------
\* The shears are complex numbers with integer parts, so that the products
\* are exact; g1, g2, g3 are the values after ProjectHelper::Project.

Complex(re, im) == [re |-> re, im |-> im]

\* std::conj and the product of std::complex.
Conj(a) == Complex(a.re, -a.im)
CMul(a, b) == Complex(a.re * b.re - a.im * b.im, a.re * b.im + a.im * b.re)

\* The eight arrays of ZetaData<GData,GData,GData>, zeroed, over two bins.
ZetaBins == {0, 1}
ZetaClear ==
    [a \in {"gam0r", "gam0i", "gam1r", "gam1i", "gam2r", "gam2i", "gam3r", "gam3i"} |->
        [i \in ZetaBins |-> 0]]

\* ProcessZeta with the signs of the imaginary part of gam3 exchanged.
ProcessZetaGam3Flipped(zeta, g1, g2, g3, index) ==
    LET g1g2  == CMul(g1, g2)
        g1cg2 == CMul(Conj(g1), g2)
    IN  [zeta EXCEPT
          !.gam0r[index] = @ + g1g2.re * g3.re - g1g2.im * g3.im,
          !.gam0i[index] = @ + g1g2.re * g3.im + g1g2.im * g3.re,
          !.gam1r[index] = @ + g1cg2.re * g3.re - g1cg2.im * g3.im,
          !.gam1i[index] = @ + g1cg2.re * g3.im + g1cg2.im * g3.re,
          !.gam2r[index] = @ + g1cg2.re * g3.re + g1cg2.im * g3.im,
          !.gam2i[index] = @ + g1cg2.re * g3.im - g1cg2.im * g3.re,
          !.gam3r[index] = @ + g1g2.re * g3.re + g1g2.im * g3.im,
          !.gam3i[index] = @ + g1g2.re * g3.im - g1g2.im * g3.re]

\* ProcessZeta: twelve multiplications and twelve additions on the parts.
ProcessZeta(zeta, g1, g2, g3, index) ==
    LET g1rg2r == g1.re * g2.re
        g1rg2i == g1.re * g2.im
        g1ig2r == g1.im * g2.re
        g1ig2i == g1.im * g2.im
        g1g2r  == g1rg2r - g1ig2i
        g1g2i  == g1rg2i + g1ig2r
        g1cg2r == g1rg2r + g1ig2i
        g1cg2i == g1rg2i - g1ig2r
        g1g2rg3r  == g1g2r * g3.re
        g1g2rg3i  == g1g2r * g3.im
        g1g2ig3r  == g1g2i * g3.re
        g1g2ig3i  == g1g2i * g3.im
        g1cg2rg3r == g1cg2r * g3.re
        g1cg2rg3i == g1cg2r * g3.im
        g1cg2ig3r == g1cg2i * g3.re
        g1cg2ig3i == g1cg2i * g3.im
    IN  [zeta EXCEPT
          !.gam0r[index] = @ + g1g2rg3r - g1g2ig3i,
          !.gam0i[index] = @ + g1g2rg3i + g1g2ig3r,
          !.gam1r[index] = @ + g1cg2rg3r - g1cg2ig3i,
          !.gam1i[index] = @ + g1cg2rg3i + g1cg2ig3r,
          !.gam2r[index] = @ + g1cg2rg3r + g1cg2ig3i,
          !.gam2i[index] = @ + g1cg2rg3i - g1cg2ig3r,
          !.gam3r[index] = @ + g1g2rg3r + g1g2ig3i,
          !.gam3i[index] = @ + (-g1g2rg3i) + g1g2ig3r]

\* The largest absolute value of a part of a shear.
MaxShear == 1

Shears == { Complex(re, im) : re \in -MaxShear..MaxShear, im \in -MaxShear..MaxShear }

\* A triangle's three shears and its index are chosen; the arrays are zeroed.
InitZeta ==
    /\ call \in { [kind |-> "zeta", g1 |-> g1, g2 |-> g2, g3 |-> g3, index |-> i] :
                    g1 \in Shears, g2 \in Shears, g3 \in Shears, i \in ZetaBins }
    /\ heap = ZetaClear
    /\ before = heap
    /\ par = ParExact
    /\ coords = [k \in 1..6 |-> -1]
    /\ phase = "idle"
    /\ pc = <<>>
    /\ next_i = 1
    /\ crit = 0
    /\ rk = <<>>
    /\ reduced = <<>>
    /\ log = <<>>
    /\ asserts = FALSE
    /\ ncalls = 0

\* One commit of the triangle (finishProcess calls ProcessZeta).
ZetaCommit ==
    /\ ncalls < MaxCalls
    /\ ncalls' = ncalls + 1
    /\ before' = heap
    /\ heap' = ProcessZeta(heap, call.g1, call.g2, call.g3, call.index)
    /\ phase' = "returned"
    /\ UNCHANGED <<par, coords, call, pc, next_i, crit, rk, reduced, log, asserts>>

NextZeta == ZetaCommit

SpecZeta == InitZeta /\ [][NextZeta]_vars

\* C18: a commit adds to (gam0r, gam0i), (gam1r, gam1i), (gam2r, gam2i),
\* (gam3r, gam3i) at index exactly the real and imaginary parts of
\* g1*g2*g3, conj(g1)*g2*g3, g1*conj(g2)*g3 and g1*g2*conj(g3); the entries
\* at the other index are untouched.
C18_SpinTwoProducts ==
    phase = "returned" =>
        \A gam \in { <<"gam0r", "gam0i", CMul(CMul(call.g1, call.g2), call.g3)>>,
                     <<"gam1r", "gam1i", CMul(CMul(Conj(call.g1), call.g2), call.g3)>>,
                     <<"gam2r", "gam2i", CMul(CMul(call.g1, Conj(call.g2)), call.g3)>>,
                     <<"gam3r", "gam3i", CMul(CMul(call.g1, call.g2), Conj(call.g3))>> } :
            /\ heap[gam[1]][call.index] = before[gam[1]][call.index] + gam[3].re
            /\ heap[gam[2]][call.index] = before[gam[2]][call.index] + gam[3].im
            /\ \A i \in ZetaBins \ {call.index} :
                  /\ heap[gam[1]][i] = before[gam[1]][i]
                  /\ heap[gam[2]][i] = before[gam[2]][i]

\* A triangle of three shears with all parts non-zero has been committed on
\* top of an earlier commit, and the four products differ from one another.
C18_Witness ==
    /\ phase = "returned"
    /\ ncalls = 2
    /\ \A g \in {call.g1, call.g2, call.g3} : g.re # 0 /\ g.im # 0
    /\ heap.gam0i[call.index] # heap.gam3i[call.index]
    /\ heap.gam1r[call.index] # heap.gam2r[call.index]
    /\ before.gam0r[call.index] # 0

\* ------------------------------------------------------------------------
\* The sort of process111 on its own
\* ------------------------------------------------------------------------

\* The largest squared side given to the sort.
MaxSide == 4

\* The conditions under which each of the six calls of process111Sorted in
\* process111 is reached, in the order of the source: 123, 132, 312, 213, 231, 321.
Branches111(d1sq, d2sq, d3sq) ==
    << d1sq > d2sq /\ d2sq > d3sq,
       d1sq > d2sq /\ ~(d2sq > d3sq) /\ d1sq > d3sq,
       d1sq > d2sq /\ ~(d2sq > d3sq) /\ ~(d1sq > d3sq),
       ~(d1sq > d2sq) /\ d1sq > d3sq,
       ~(d1sq > d2sq) /\ ~(d1sq > d3sq) /\ d2sq > d3sq,
       ~(d1sq > d2sq) /\ ~(d1sq > d3sq) /\ ~(d2sq > d3sq) >>

\* Three squared sides are chosen, ties and zeros included.
InitSort ==
    /\ call \in { [kind |-> "sort", d1sq |-> a, d2sq |-> b, d3sq |-> c] :
                    a \in 0..MaxSide, b \in 0..MaxSide, c \in 0..MaxSide }
    /\ heap = [r \in Masters |-> clear(ParExact)]
    /\ before = heap
    /\ par = ParExact
    /\ coords = [k \in 1..6 |-> -1]
    /\ phase = "idle"
    /\ pc = <<>>
    /\ next_i = 1
    /\ crit = 0
    /\ rk = <<>>
    /\ reduced = <<>>
    /\ log = <<>>
    /\ asserts = FALSE
    /\ ncalls = 0

\* process111 up to its call of process111Sorted, and the Asserts at the top
\* of process111Sorted; the cells and accumulators are known by their names.
SortStep ==
    /\ phase = "idle"
    /\ phase' = "returned"
    /\ \E a \in { Sort111("bc123", "bc132", "bc213", "bc231", "bc312", "bc321",
                          "c1", "c2", "c3", call.d1sq, call.d2sq, call.d3sq) } :
          log' = << [this |-> a[1][1], c1 |-> a[2], c2 |-> a[3], c3 |-> a[4],
                     d1sq |-> a[5], d2sq |-> a[6], d3sq |-> a[7],
                     failed |-> AssertEv(a[5] >= a[6], "d1sq >= d2sq")
                                \o AssertEv(a[6] >= a[7], "d2sq >= d3sq")] >>
    /\ UNCHANGED <<par, heap, coords, call, before, pc, next_i, crit, rk, reduced, asserts, ncalls>>

NextSort == SortStep

SpecSort == InitSort /\ [][NextSort]_vars

\* C19: for every triple of squared distances, ties included, exactly one
\* of the six branches of process111 is taken, the three values it passes
\* to process111Sorted satisfy d1sq >= d2sq >= d3sq and are the given
\* values in the order of that branch, and the Asserts at the top of
\* process111Sorted do not fail.
C19_SortedEntry ==
    phase = "returned" =>
        \A br \in { Branches111(call.d1sq, call.d2sq, call.d3sq) } :
            /\ Cardinality({ k \in 1..6 : br[k] }) = 1
            /\ log[1].d1sq >= log[1].d2sq /\ log[1].d2sq >= log[1].d3sq
            /\ log[1].failed = <<>>
            /\ <<log[1].this, log[1].d1sq, log[1].d2sq, log[1].d3sq>>
                 = CASE br[1] -> <<"bc123", call.d1sq, call.d2sq, call.d3sq>>
                     [] br[2] -> <<"bc132", call.d1sq, call.d3sq, call.d2sq>>
                     [] br[3] -> <<"bc312", call.d3sq, call.d1sq, call.d2sq>>
                     [] br[4] -> <<"bc213", call.d2sq, call.d1sq, call.d3sq>>
                     [] br[5] -> <<"bc231", call.d2sq, call.d3sq, call.d1sq>>
                     [] br[6] -> <<"bc321", call.d3sq, call.d2sq, call.d1sq>>

\* The sort has been applied to a triple with d1sq = d3sq < d2sq: a tie
\* between the first and the last argument, taken by branch 231.
C19_Witness ==
    /\ phase = "returned"
    /\ call.kind = "sort"
    /\ call.d1sq = call.d3sq /\ call.d1sq < call.d2sq
    /\ log[1].this = "bc231"
    /\ log[1].d2sq = log[1].d3sq

\* ------------------------------------------------------------------------
\* Sides and cells
\* ------------------------------------------------------------------------

\* The cells of an entry of process111Sorted.
EntryCells(e) == {e.c1, e.c2, e.c3}

MaxD == 4
MaxSize == 3

\* The tolerances b, bu, bv tried: 0, 0.1 and 0.5.
Tolerances == {0, R(1) \div 10, R(1) \div 2}

\* ParExact with the tolerances b, bu, bv.
ParB(b, bu, bv) ==
    BaseCorr3(R(1), R(16), 2, R(4), b, 0, R(1), 2, R(1) \div 2, bu, 0, R(1), 2, R(1) \div 2, bv)

\* Cells and points the recursion is entered on: a wide pair, and two points
\* 7 apart with the pair PQ (size 0.5) as the vertex opposite the longest side.
cellAE == Node("AE", ptA, ptE)
ptL3 == Leaf("L3", -3, 3, 1, 1)
ptR3 == Leaf("R3", 4, 3, 1, 1)
\* A pair 0.4 apart, a point 8.5 from the centre of PQ, a point inside XY's disk.
cellTiny == Node("PT", ptP, LeafAt("T4", 0, (4 * R(1)) \div 10, 1, 1))
ptF9 == Leaf("F9", 9, 0, 1, 1)
ptIn == LeafAt("In", R(5), (3 * R(1)) \div 2, 1, 1)

\* The calls of process3, process12 and process111 a process entry point makes.
WalkCalls ==
    { [kind |-> "process3", c1 |-> c, c2 |-> c, c3 |-> c] :
        c \in {FieldTree[1], cellAB, cellPQ, cellAE, cellTiny, ptA} }
    \cup { [kind |-> "process12", c1 |-> InField(cs[1], 1), c2 |-> InField(cs[2], 2), c3 |-> cs[2]] :
             cs \in { <<ptE, FieldTree[1]>>, <<cellPQ, cellXY>>, <<cellXY, cellPQ>>,
                      <<ptX, cellPS>>, <<cellAB, cellCD>>, <<ptA, ptB>>,
                      <<ptQ, cellPS>>, <<ptX, cellTiny>>, <<ptF9, cellPQ>>,
                      <<ptIn, cellXY>> } }
    \cup { [kind |-> "process111", c1 |-> InField(cs[1], 1), c2 |-> InField(cs[2], 2), c3 |-> InField(cs[3], 3)] :
             cs \in { <<cellPQ, ptL3, ptR3>>, <<ptL3, cellPQ, ptR3>>, <<cellPQ, ptX, ptY>>,
                      <<cellAB, cellCD, ptE>>, <<cellPS, cellXY, ptE>> } }

\* ParExact with a v bin size too small for the range: two bins of 0.45.
ParVLoose ==
    BaseCorr3(R(1), R(16), 2, R(4), 0, 0, R(1), 2, R(1) \div 2, 0, 0, R(1), 2, (45 * R(1)) \div 100, 0)

\* The number of values of |v| tried in [0, 1].
MaxV == 20

\* Two triangles at the no-split branch: their |v| and their orientations.
BinCalls ==
    { [kind |-> "bin", v1 |-> (i * R(1)) \div MaxV, ccw1 |-> o1,
                       v2 |-> (j * R(1)) \div MaxV, ccw2 |-> o2] :
        i \in 0..MaxV, j \in 0..MaxV, o1 \in BOOLEAN, o2 \in BOOLEAN }

\* The sizes and the sides between the centres of three cells as
\* process111Sorted receives them: d1 >= d2 >= d3, d1 <= d2 + d3.
InitSplit ==
    /\ par \in { ParB(b, bu, bv) : b \in Tolerances, bu \in Tolerances, bv \in Tolerances }
               \cup {ParRange, ParS1, ParMinV, ParVLoose}
    /\ call \in { [kind |-> "split",
                   s1 |-> (k1 * R(1)) \div 2, s2 |-> (k2 * R(1)) \div 2,
                   s3 |-> (k3 * R(1)) \div 2,
                   d1sq |-> SQR(R(d[1])), d2sq |-> SQR(R(d[2])), d3sq |-> SQR(R(d[3]))] :
                  k1 \in 0..MaxSize, k2 \in 0..MaxSize, k3 \in 0..MaxSize,
                  d \in { t \in (0..MaxD) \X (0..MaxD) \X (0..MaxD) :
                            t[1] >= t[2] /\ t[2] >= t[3] /\ t[1] <= t[2] + t[3] } }
                \cup WalkCalls \cup BinCalls
    /\ heap = <<>>
    /\ before = heap
    /\ coords = [k \in 1..6 |-> -1]
    /\ phase = "idle"
    /\ pc = <<>>
    /\ next_i = 1
    /\ crit = 0
    /\ rk = <<>>
    /\ reduced = <<>>
    /\ log = <<>>
    /\ asserts = FALSE
    /\ ncalls = 0

\* process111Sorted up to the end of the split decision: stop111, and when
\* it returns false the decision with the d1, d3, u, v it leaves behind.
SplitStep ==
    /\ phase = "idle"
    /\ call.kind = "split"
    /\ \E st \in { stop111(call.d1sq, call.d2sq, call.d3sq, 0, call.s1, call.s2, call.s3,
                           par.minsep, par.minsepsq, par.maxsep, par.maxsepsq,
                           par.minu, par.minusq, par.maxu, par.maxusq,
                           par.minv, par.minvsq, par.maxv, par.maxvsq) } :
          IF st.stop
          THEN phase' = "stopped" /\ log' = << [stop |-> TRUE, d2 |-> st.d2] >>
          ELSE /\ phase' = "decided"
               /\ log' = << [stop |-> FALSE, d2 |-> st.d2,
                             sd |-> SplitDecision(par, call.s1, call.s2, call.s3,
                                                  call.d1sq, call.d2sq, call.d3sq, st.d2)] >>
    /\ UNCHANGED <<par, heap, coords, call, before, pc, next_i, crit, rk, reduced, asserts, ncalls>>

\* The events of one such call on the masters.
WalkEvents(P, c) ==
    IF c.kind = "process3" THEN process3(P, <<0, 1>>, c.c1)
    ELSE IF c.kind = "process12" THEN process12(P, <<0, 1>>, <<0, 2>>, <<0, 3>>, c.c1, c.c2)
    ELSE process111(P, [k \in 1..6 |-> <<0, k>>], c.c1, c.c2, c.c3, 0, 0, 0)

WalkStep ==
    /\ phase = "idle"
    /\ call.kind \in {"process3", "process12", "process111"}
    /\ phase' = "walked"
    /\ log' = << [w |-> 0, evs |-> WalkEvents(par, call)] >>
    /\ UNCHANGED <<par, heap, coords, call, before, pc, next_i, crit, rk, reduced, asserts, ncalls>>

\* The no-split branch for three points of the given orientation, with d2
\* and u inside their ranges and v as given.
BinEvents(P, v, ccw) ==
    Commit111(P, <<0, 1>>, ptA, IF ccw THEN ptB ELSE ptC, IF ccw THEN ptC ELSE ptB,
              R(1), P.minsep, R(1), (P.minu + P.maxu) \div 2, v)

BinStep ==
    /\ phase = "idle"
    /\ call.kind = "bin"
    /\ phase' = "binned"
    /\ log' = << [w |-> 0, evs |-> BinEvents(par, call.v1, call.ccw1)],
                 [w |-> 0, evs |-> BinEvents(par, call.v2, call.ccw2)] >>
    /\ UNCHANGED <<par, heap, coords, call, before, pc, next_i, crit, rk, reduced, asserts, ncalls>>

NextSplit == SplitStep \/ WalkStep \/ BinStep

SpecSplit == InitSplit /\ [][NextSplit]_vars

\* ------------------------------------------------------------------------
\* C21: a split is always executable
\* ------------------------------------------------------------------------

\* The Asserts that guard a child access.
ChildAsserts ==
    { "split1 == false || s1 > 0", "split2 == false || s2 > 0",
      "split3 == false || s3 > 0",
      "c1.getLeft() && c1.getRight()", "c2.getLeft() && c2.getRight()" }

\* The decision reached by SplitStep.
Decision == log[1].sd

\* C21: when process111Sorted decides to split, one of split1, split2, split3
\* is true and a cell is split only when its size is positive; and in the
\* recursion from process3, process12 and process111 (minsep > 0, the cells
\* of size 0 being the leaves) no child of a leaf is asked for.
C21_SplitExecutable ==
    /\ (phase = "decided" /\ Decision.split) =>
          /\ Decision.split1 \/ Decision.split2 \/ Decision.split3
          /\ Decision.split1 => call.s1 > 0
          /\ Decision.split2 => call.s2 > 0
          /\ Decision.split3 => call.s3 > 0
    /\ phase = "walked" =>
          \A n \in DOMAIN log[1].evs :
             log[1].evs[n].kind = "assert" => log[1].evs[n].what \notin ChildAsserts

\* A decision to split c1 alone while c2 and c3 are points.
C21_Witness ==
    /\ phase = "decided"
    /\ Decision.split /\ Decision.split1 /\ ~Decision.split2 /\ ~Decision.split3
    /\ call.s1 > 0 /\ call.s2 = 0 /\ call.s3 = 0

\* ------------------------------------------------------------------------
\* C22: termination
\* ------------------------------------------------------------------------

\* C22: every call of a process entry point eventually returns, whatever the
\* schedule of the threads: each iteration's calls of process3, process12 and
\* process111 come to an end, and so does the region.
C22_ProcessReturns == (phase = "running") ~> (phase = "returned")

\* A call run by two threads has returned, its recursion having split cells
\* and committed triangles.
C22_Witness ==
    /\ phase = "returned"
    /\ Len(pc) = 2
    /\ \E i \in DOMAIN log : \E n \in DOMAIN log[i].evs :
          /\ log[i].evs[n].kind = "commit"
    /\ \E i \in DOMAIN log : \E n \in DOMAIN log[i].evs :
          /\ log[i].evs[n].kind = "sorted"
          /\ log[i].evs[n].c1.size + log[i].evs[n].c2.size + log[i].evs[n].c3.size > 0

\* ------------------------------------------------------------------------
\* C23: the d2 tolerance on c1
\* ------------------------------------------------------------------------

\* The commits of the call run by WalkStep.
WalkCommits == { n \in DOMAIN log[1].evs : log[1].evs[n].kind = "commit" }

\* C23: if c3 is not split, s1 > 0 and s1 + s3 > b*d2, then c1 is split, also
\* when s3 = 0; and no triple is committed with s1 + s3 > b*d2.
C23_D2ToleranceOnC1 ==
    /\ (phase = "decided" /\ ~Decision.split3 /\ call.s1 > 0
          /\ call.s1 + call.s3 > Mul(log[1].d2, par.b)) => Decision.split1
    /\ phase = "walked" =>
          \A n \in WalkCommits :
             log[1].evs[n].c1.size + log[1].evs[n].c3.size
                <= Mul(log[1].evs[n].d2, par.b)

\* ------------------------------------------------------------------------
\* C24: the rule for splitting c3
\* ------------------------------------------------------------------------

\* The clauses of the rule other than the u clause, d2 being the side length.
C3RuleD2(d2) ==
    \/ call.s3 > Mul(d2, par.b)
    \/ (call.s1 + call.s3 > Mul(d2, par.b) /\ call.s3 >= call.s1)
    \/ (par.bv < par.b /\ call.s3 > Mul(d2, par.bv))

\* C24 as stated: c3 is split iff s3 > 0 and one of: s3 > b*d2; s1+s3 > b*d2
\* with s3 >= s1; bu < b and s3^2 d3^2 > bu^2 d2^2; bv < b and s3 > bv*d2.
C24_SplitC3_AsStated ==
    phase = "decided" =>
       (Decision.split3 <=>
          /\ call.s3 > 0
          /\ \/ C3RuleD2(log[1].d2)
             \/ (par.bu < par.b
                   /\ Mul(SQR(call.s3), call.d3sq) > Mul(par.busq, call.d2sq)))

\* C24 amended: the same rule with the u clause bu < b and
\* s3^2 d3^2 > bu^2 d2^4, that is s3 d3 > bu d2^2.
C24_SplitC3 ==
    phase = "decided" =>
       (Decision.split3 <=>
          /\ call.s3 > 0
          /\ \/ C3RuleD2(log[1].d2)
             \/ (par.bu < par.b
                   /\ Mul(SQR(call.s3), call.d3sq) > SQR(Mul(par.bu, call.d2sq))))

\* c3 is split on account of the u clause alone.
C24_Witness ==
    /\ phase = "decided"
    /\ Decision.split3
    /\ call.s3 > 0 /\ par.bu > 0
    /\ ~C3RuleD2(log[1].d2)

\* ------------------------------------------------------------------------
\* C25: the rule for splitting c1 when c3 is not split
\* ------------------------------------------------------------------------

\* The rule of c1: s1 > 0 and (d2split or s1^2 > d3^2); d2split was saved
\* when s3 > 0 and s1 + s3 > b*d2.
C1Rule ==
    /\ call.s1 > 0
    /\ \/ (call.s3 > 0 /\ call.s1 + call.s3 > Mul(log[1].d2, par.b))
       \/ SQR(call.s1) > call.d3sq

\* The rule of c2.
C2Rule ==
    /\ call.s2 > 0
    /\ \/ SQR(call.s2) > call.d3sq
       \/ (call.s2 > call.s3 /\ call.d3sq > SQR(log[1].d2 - call.s2 + call.s3))
       \/ (call.s2 > call.s1 /\ call.d1sq < SQR(log[1].d2 + call.s2 - call.s1))

\* C25 as stated: when c3 is not split, c1 is split iff its rule holds, or
\* neither rule holds, the u or v check triggers and s1 >= s2; so c1 is not
\* split when c2 is split by its own rule and the rule of c1 does not hold.
C25_SplitC1_AsStated ==
    (phase = "decided" /\ ~Decision.split3) =>
       (Decision.split1 <=>
          \/ C1Rule
          \/ (~C1Rule /\ ~C2Rule /\ Decision.split /\ call.s1 >= call.s2))

\* C25 amended: when c3 is not split, c1 is split iff its rule holds, or
\* anything is split (by the rule of c2, the u check or the v check) and
\* s1 >= s2.
C25_SplitC1 ==
    (phase = "decided" /\ ~Decision.split3) =>
       (Decision.split1 <=> (C1Rule \/ (Decision.split /\ call.s1 >= call.s2)))

\* c2 is split by its own rule, the rule of c1 does not hold, and c1 is split.
C25_Witness ==
    /\ phase = "decided"
    /\ ~Decision.split3
    /\ C2Rule /\ ~C1Rule
    /\ Decision.split1 /\ Decision.split2

\* ------------------------------------------------------------------------
\* C26: the early returns of process3 and process12
\* ------------------------------------------------------------------------

\* The positions on the half-unit grid, from (-2, -2) to (10, 10).
Grid == { <<(x * R(1)) \div 2, (y * R(1)) \div 2>> : x \in -4..20, y \in -4..20 }

\* Positions within the disk of a cell: its points, and the grid points no
\* further from its centre than its size.
Disk(c) ==
    LeafPos(c) \cup { g \in Grid : DistSq(getPos(c), g, 0, 0) <= SQR(getSize(c)) }

\* The triangle of three positions has d2 in [minsep, maxsep) and u >= minu.
D2UInRange(P, qa, qb, qc) ==
    \E ss \in { SortedSidesSq(qa, qb, qc) } :
       /\ ss[2] >= P.minsepsq /\ ss[2] < P.maxsepsq
       /\ ss[3] >= Mul(P.minusq, ss[2])

\* C26: process3 returns early on its size test only when no three points in
\* the disk of c1, and process12 on its tests of size(c2), of the two
\* separations and of minu only when no point in the disk of c1 with two
\* distinct points in the disk of c2, make a triangle with d2 in
\* [minsep, maxsep) and u >= minu.
C26_EarlyReturnsSound ==
    /\ (phase = "walked" /\ call.kind = "process3" /\ Return3(par, call.c1)) =>
          \A D \in { Disk(call.c1) } :
             \A qa \in D, qb \in D, qc \in D : ~D2UInRange(par, qa, qb, qc)
    /\ (phase = "walked" /\ call.kind = "process12"
          /\ Return12(par, call.c1, call.c2) # "none") =>
          \A D1 \in { Disk(call.c1) }, D2 \in { Disk(call.c2) } :
             \A qa \in D1, qb \in D2, qc \in D2 :
                qb # qc => ~D2UInRange(par, qa, qb, qc)

\* process12 has returned on its lower-separation test for a cell c2 that
\* holds two points more than minsep * minu apart.
C26_Witness ==
    /\ phase = "walked" /\ call.kind = "process12"
    /\ getW(call.c1) > 0 /\ getW(call.c2) > 0
    /\ Return12(par, call.c1, call.c2) = "d2 cannot be as large as minsep"
    /\ log[1].evs = <<>>
    /\ Cardinality(LeafPos(call.c2)) = 2

\* ------------------------------------------------------------------------
\* C27: the v bins
\* ------------------------------------------------------------------------

\* The triangle of BinStep number n was committed.
Binned(n) == \E m \in DOMAIN log[n].evs : log[n].evs[m].kind = "commit"

\* Its commit.
BinCommit(n) ==
    log[n].evs[CHOOSE m \in DOMAIN log[n].evs : log[n].evs[m].kind = "commit"]

\* floor((|v| - minv) / vbinsize) clamped to [0, nvbins).
VBin(v) ==
    LET k == (v - par.minv) \div par.vbinsize
    IN  IF k >= par.nvbins THEN par.nvbins - 1 ELSE IF k < 0 THEN 0 ELSE k

\* C27: the v bin of a committed triangle is nvbins-1-k, in [0, nvbins), iff
\* its cells are not counter-clockwise and nvbins+k, in [nvbins, 2 nvbins),
\* iff they are, k being floor((|v|-minv)/vbinsize) clamped to [0, nvbins);
\* two triangles with the same |v| and opposite orientations land in the
\* mirror bins kv and 2 nvbins - 1 - kv; and the bin does not decrease as the
\* signed v grows.
C27_VBins ==
    phase = "binned" =>
       /\ (Binned(1) /\ ~call.ccw1) =>
             /\ CommitKv(BinCommit(1)) = par.nvbins - 1 - VBin(call.v1)
             /\ CommitKv(BinCommit(1)) \in 0 .. (par.nvbins - 1)
       /\ (Binned(1) /\ call.ccw1) =>
             /\ CommitKv(BinCommit(1)) = par.nvbins + VBin(call.v1)
             /\ CommitKv(BinCommit(1)) \in par.nvbins .. (par.nvbins2 - 1)
       /\ (Binned(1) /\ Binned(2) /\ call.v1 = call.v2 /\ call.ccw1 # call.ccw2) =>
             CommitKv(BinCommit(2)) = par.nvbins2 - 1 - CommitKv(BinCommit(1))
       /\ (Binned(1) /\ Binned(2) /\ BinCommit(1).v < BinCommit(2).v) =>
             CommitKv(BinCommit(1)) <= CommitKv(BinCommit(2))

\* Two triangles with the same |v| > 0 in the clamped top bin, of opposite
\* orientations, have been committed.
C27_Witness ==
    /\ phase = "binned"
    /\ Binned(1) /\ Binned(2)
    /\ call.v1 = call.v2 /\ call.ccw1 /\ ~call.ccw2
    /\ (call.v1 - par.minv) \div par.vbinsize = par.nvbins
    /\ CommitKv(BinCommit(1)) = par.nvbins2 - 1
    /\ CommitKv(BinCommit(2)) = 0

\* ------------------------------------------------------------------------
\* C28: the quantities of the no-split branch
\* ------------------------------------------------------------------------

\* The Asserts at the head of the no-split branch.
CommitAsserts == {"d1 > 0", "d3 > 0", "u > 0", "v >= 0"}

\* C28: whenever process111Sorted reaches the no-split branch, d2, d1, d3, u
\* and v hold the values computed from the distances, with d1 > 0, d3 > 0,
\* u > 0 and v >= 0; and u = d3/d2 and v = (d1-d2)/d3 are never evaluated with
\* a divisor 0, whatever the sizes and the distances, zero included.
C28_CommitQuantities ==
    /\ phase = "decided" =>
          /\ Decision.ueval => log[1].d2 > 0
          /\ Decision.veval => sqrt(call.d3sq) > 0
          /\ ~Decision.split =>
                /\ Decision.ueval /\ Decision.veval
                /\ log[1].d2 = sqrt(call.d2sq)
                /\ Decision.d1 = sqrt(call.d1sq)
                /\ Decision.d3 = sqrt(call.d3sq)
                /\ Decision.u = Div(Decision.d3, log[1].d2)
                /\ Decision.v = Div(Decision.d1 - log[1].d2, Decision.d3)
                /\ Decision.d1 > 0 /\ Decision.d3 > 0
                /\ Decision.u > 0 /\ Decision.v >= 0
    /\ phase = "walked" =>
          \A n \in DOMAIN log[1].evs :
             log[1].evs[n].kind = "assert" => log[1].evs[n].what \notin CommitAsserts

\* The no-split branch reached for a cell of positive size and two points,
\* with d1 > d2.
C28_Witness ==
    /\ phase = "decided"
    /\ ~Decision.split
    /\ call.s1 > 0 /\ call.s2 = 0 /\ call.s3 = 0
    /\ Decision.v > 0

\* ------------------------------------------------------------------------
\* C29: a rejected call
\* ------------------------------------------------------------------------

\* C29: a process call that is rejected, for a conflict of the coord tag or
\* for a field without top-level cells, leaves every array and the coord tag
\* of every accumulator as they were before the call.
C29_RejectedUnchanged ==
    [][ (ProcessStep /\ phase' = "rejected") =>
           (heap' = heap /\ coords' = coords) ]_vars

====
